---- MODULE Spec2Model ----
(***************************************************************************)
(* A model of the design-token engine of src/src/parsers/w3c-tokens.ts:    *)
(* the reference resolver (TokenReferenceResolver), the flattening parser  *)
(* (TokenFileParser, parseMultipleTokenFiles) and the document validator   *)
(* (DesignTokensFileSchema).                                               *)
(*                                                                         *)
(* Strings are sequences of one-character strings, so that the regular     *)
(* expressions, joins, splits and replacements of the source are computed  *)
(* character by character.                                                 *)
(***************************************************************************)
EXTENDS Integers, Sequences, FiniteSets, TLC

VARIABLES
    tokens,            \* the ParsedToken[] handed to the resolver's constructor
    tokenMap,          \* TokenReferenceResolver.tokenMap (insertion-ordered map)
    resolvedTokens,    \* TokenReferenceResolver.resolvedTokens (insertion-ordered map)
    resolutionStack,   \* TokenReferenceResolver.resolutionStack (insertion-ordered set)
    frames,            \* the JavaScript call stack of the resolver's methods
    ctl,               \* what the machine does next: a pending call, a return, a throw
    top,               \* the top-level call in progress, or "idle"
    allIdx,            \* resolveAllTokens: position of its loop over tokenMap.values()
    calls,             \* number of top-level calls started so far
    outcome,           \* the last top-level call: which, on what key, how it ended
    computed,          \* how many times resolveTokenValue ran, per token
    steps,             \* steps taken by the top-level call in progress
    files,             \* parseMultipleTokenFiles: the files handed to it, in order
    fileIdx,           \* parseMultipleTokenFiles: position of its loop over the files
    parserTokens,      \* TokenFileParser.tokens: Map from token name to ParsedToken
    categories,        \* TokenFileParser.categories: Map from first path segment to tokens
    errors,            \* TokenFileParser.errors
    result,            \* what parseMultipleTokenFiles returned, once it has
    report,            \* what TokenFileValidator.validateTokenFile returned, once it has
    catalog,           \* categorizeTokens / inferTokenCategory: the tokens given, the answers
    tool,              \* getCategoryTokens / getTokenReference: the request and its answer
    earlier            \* what resolveAllTokens gave on a resolver built before this one

rvars == <<tokens, tokenMap, resolvedTokens, resolutionStack, frames, ctl, top, allIdx,
           calls, outcome, computed, steps>>

pvars == <<files, fileIdx, parserTokens, categories, errors, result, report, catalog, tool,
          earlier>>
vars == <<rvars, pvars>>

\* parseMultipleTokenFiles has not returned
NoResult == [done |-> FALSE]

\* validateTokenFile has not returned
NoReport == [done |-> FALSE]

\* no resolver was built before this one
NoEarlier == [how |-> "none"]

\* no tool has been called
NoTool == [phase |-> "none"]

\* categorizeTokens and inferTokenCategory have not been called
NoCatalog ==
    [tokens |-> <<>>, classified |-> FALSE, classes |-> <<>>,
     categorized |-> FALSE, categories |-> <<>>]

-----------------------------------------------------------------------------
(* Bounds *)

\* most tokens in a resolver's input
MaxTokens == 3

\* most top-level calls (resolveToken / resolveAllTokens) made on one resolver
MaxCalls == 2

-----------------------------------------------------------------------------
(* Strings *)

Min(a, b) == IF a < b THEN a ELSE b

\* s.replace(/<from>/g, to) for a one-character pattern
ReplaceAll(s, from, to) == [i \in 1..Len(s) |-> IF s[i] = from THEN to ELSE s[i]]

\* segments.join(sep)
RECURSIVE Join(_, _)
Join(segments, sep) ==
    IF Len(segments) = 0 THEN <<>>
    ELSE IF Len(segments) = 1 THEN segments[1]
    ELSE segments[1] \o <<sep>> \o Join(Tail(segments), sep)

\* s.endsWith(suffix)
EndsWith(s, suffix) ==
    /\ Len(suffix) <= Len(s)
    /\ SubSeq(s, Len(s) - Len(suffix) + 1, Len(s)) = suffix

\* s.split(/[.-]/).pop(): the text after the last "." or "-"
LastSegment(s) ==
    LET seps == {i \in 1..Len(s) : s[i] \in {".", "-"}}
        last == IF seps = {} THEN 0 ELSE CHOOSE i \in seps : \A j \in seps : j <= i
    IN SubSeq(s, last + 1, Len(s))

\* /^\{[^}]+\}$/.test(value)
IsTokenReference(s) ==
    /\ Len(s) >= 3
    /\ s[1] = "{"
    /\ s[Len(s)] = "}"
    /\ \A i \in 2..(Len(s) - 1) : s[i] # "}"

\* reference.match(/^\{([^}]+)\}$/): the captured name, or <<>> for null
ParseTokenReference(s) ==
    IF IsTokenReference(s) THEN SubSeq(s, 2, Len(s) - 1) ELSE <<>>

-----------------------------------------------------------------------------
(* Values: a JSON value is a string, a number, an object or an array *)

StrV(s) == [t |-> "str", s |-> s, kids |-> <<>>]
NumV(n) == [t |-> "num", s |-> <<n>>, kids |-> <<>>]
ObjV(entries) == [t |-> "obj", s |-> <<>>, kids |-> entries]
ArrV(items) ==
    [t |-> "arr", s |-> <<>>, kids |-> [i \in 1..Len(items) |-> [k |-> "", v |-> items[i]]]]
KV(key, val) == [k |-> key, v |-> val]

\* typeof v === 'object' && v !== null
IsComposite(v) == v.t \in {"obj", "arr"}

\* typeof v === 'string' && this.isTokenReference(v)
IsAliasValue(v) == v.t = "str" /\ IsTokenReference(v.s)

-----------------------------------------------------------------------------
(* Flattened tokens and the resolver's lookup map *)

\* a ParsedToken as extractTokensFromGroup builds it: name is the dash-joined path
ParsedToken(path, value) == [name |-> Join(path, "-"), path |-> path, value |-> value]

NoToken == [name |-> <<>>, path |-> <<>>, value |-> StrV(<<>>)]

MapHas(m, key) == \E i \in 1..Len(m) : m[i].key = key
MapIndex(m, key) == CHOOSE i \in 1..Len(m) : m[i].key = key
MapGet(m, key) == m[MapIndex(m, key)].val
\* Map.prototype.set: an existing key keeps its place, a new key goes last
MapSet(m, key, val) ==
    IF MapHas(m, key) THEN [m EXCEPT ![MapIndex(m, key)].val = val]
    ELSE Append(m, [key |-> key, val |-> val])

\* the constructor: every token is indexed by its name and by its dot-joined path
RECURSIVE BuildTokenMap(_, _)
BuildTokenMap(toks, m) ==
    IF Len(toks) = 0 THEN m
    ELSE BuildTokenMap(Tail(toks),
            MapSet(MapSet(m, toks[1].name, toks[1]), Join(toks[1].path, "."), toks[1]))

TokenMapOf(toks) == BuildTokenMap(toks, <<>>)

\* the first token of a Map scan among the entries (hits) that pass its test
FirstMatch(m, hits) ==
    IF hits = {} THEN [found |-> FALSE, tok |-> NoToken]
    ELSE [found |-> TRUE, tok |-> m[CHOOSE i \in hits : \A j \in hits : i <= j].val]

\* a lookup that tries the last segment before anything else
FindReferencedTokenTrailingFirst(m, referenceName) ==
    LET lastSeg == LastSegment(referenceName)
        ByLast == {i \in 1..Len(m) :
                     \/ m[i].val.path[Len(m[i].val.path)] = lastSeg
                     \/ EndsWith(m[i].val.name, <<"-">> \o lastSeg)}
    IN IF Len(lastSeg) > 0 /\ ByLast # {} THEN FirstMatch(m, ByLast)
       ELSE IF MapHas(m, referenceName) THEN [found |-> TRUE, tok |-> MapGet(m, referenceName)]
       ELSE [found |-> FALSE, tok |-> NoToken]

\* findReferencedToken: the lookup ladder
FindReferencedTokenIn(m, referenceName) ==
    LET dashName == ReplaceAll(referenceName, ".", "-")
        dotName == ReplaceAll(referenceName, "-", ".")
        lastSeg == LastSegment(referenceName)
        ByPath == {i \in 1..Len(m) : Join(m[i].val.path, ".") = referenceName}
        ByLast == {i \in 1..Len(m) :
                     \/ m[i].val.path[Len(m[i].val.path)] = lastSeg
                     \/ EndsWith(m[i].val.name, <<"-">> \o lastSeg)}
    IN IF MapHas(m, referenceName) THEN [found |-> TRUE, tok |-> MapGet(m, referenceName)]
       ELSE IF MapHas(m, dashName) THEN [found |-> TRUE, tok |-> MapGet(m, dashName)]
       ELSE IF MapHas(m, dotName) THEN [found |-> TRUE, tok |-> MapGet(m, dotName)]
       ELSE IF ByPath # {} THEN FirstMatch(m, ByPath)
       ELSE IF Len(lastSeg) > 0 THEN FirstMatch(m, ByLast)
       ELSE [found |-> FALSE, tok |-> NoToken]

FindReferencedToken(referenceName) == FindReferencedTokenIn(tokenMap, referenceName)

-----------------------------------------------------------------------------
(* Resolved records and their error messages *)

\* A resolutionError is a sequence of message parts (the text pieces that the
\* source joins with "; "); <<>> stands for undefined.  A part keeps the message
\* kind, the object keys prefixed to it ("key: ...") and what the message names.
ErrPart(kind, arg) == [kind |-> kind, pre |-> <<>>, arg |-> arg]
CircularErr(chain) == <<ErrPart("Circular reference detected", chain)>>
NotFoundErr(referenceName) == <<ErrPart("Referenced token not found", <<referenceName>>)>>
InvalidFormatErr(text) == <<ErrPart("Invalid token reference format", <<text>>)>>
InvalidItemErr(text) == <<ErrPart("Invalid token reference", <<text>>)>>
FailedErr(referenceName) == <<ErrPart("Failed to resolve reference", <<referenceName>>)>>

\* `${key}: ${error}`
PrefixErr(key, err) == [err EXCEPT ![1].pre = <<key>> \o @]

\* resolutionError.includes('Circular reference')
IncludesCircular(err) == \E i \in 1..Len(err) : err[i].kind = "Circular reference detected"

\* a base record that starts out unresolved
BaseResolvedTokenPending(tok) ==
    [name |-> tok.name, path |-> tok.path, value |-> tok.value,
     originalValue |-> tok.value, resolvedValue |-> tok.value,
     isResolved |-> FALSE, hasCircularReference |-> FALSE,
     referencePath |-> <<>>, resolutionError |-> <<>>]

\* { ...token, originalValue: token.value, resolvedValue: token.value, isResolved: true }
BaseResolvedToken(tok) ==
    [name |-> tok.name, path |-> tok.path, value |-> tok.value,
     originalValue |-> tok.value, resolvedValue |-> tok.value,
     isResolved |-> TRUE, hasCircularReference |-> FALSE,
     referencePath |-> <<>>, resolutionError |-> <<>>]

\* the record the cycle branch stores for a token of the chain
\* marking a token of a cycle without taking back that it is resolved
CycResolvedFlagOnly(tok, chain) ==
    [BaseResolvedToken(tok) EXCEPT !.hasCircularReference = TRUE,
                                   !.resolutionError = CircularErr(chain)]

CycResolved(tok, chain) ==
    [BaseResolvedToken(tok) EXCEPT !.isResolved = FALSE,
                                   !.hasCircularReference = TRUE,
                                   !.resolutionError = CircularErr(chain)]

\* a cycle branch that marks only the name that was met again
MarkRevisitedOnly(memo, m, names, chain) ==
    LET name == chain[Len(chain)]
    IN IF MapHas(m, name) THEN MapSet(memo, name, CycResolved(MapGet(m, name), chain))
       ELSE memo

\* for (const name of chain) { ... this.resolvedTokens.set(name, cycResolved) }
RECURSIVE MarkChain(_, _, _, _)
MarkChain(memo, m, names, chain) ==
    IF Len(names) = 0 THEN memo
    ELSE IF ~MapHas(m, names[1]) THEN MarkChain(memo, m, Tail(names), chain)
    ELSE MarkChain(MapSet(memo, names[1], CycResolved(MapGet(m, names[1]), chain)),
                   m, Tail(names), chain)

\* a resolveTokenValue that takes the chain's next alias for the resolved value
\* whenever the referent has a record
ReferenceResultShallow(tok, referenceName, ret) ==
    LET base == BaseResolvedToken(tok) IN
    IF ret.kind = "null" THEN
        [base EXCEPT !.referencePath = referenceName, !.isResolved = FALSE,
                     !.resolutionError = FailedErr(referenceName)]
    ELSE [base EXCEPT !.resolvedValue = ret.rec.originalValue,
                      !.referencePath = referenceName,
                      !.isResolved = ret.rec.isResolved,
                      !.resolutionError = ret.rec.resolutionError]

\* a not-found branch that forgets to flag the record
NotFoundResultUnflagged(tok, referenceName) == BaseResolvedToken(tok)

\* resolveTokenValue: the record for an alias that names no token
NotFoundResult(tok, referenceName) ==
    [BaseResolvedToken(tok) EXCEPT !.isResolved = FALSE,
                                   !.resolutionError = NotFoundErr(referenceName)]

\* resolveTokenValue, after this.resolveToken(referencedToken.name) returned ret
\* a resolver that resolves in place: the resolved value is written over the value
ReferenceResultInPlace(tok, referenceName, ret) ==
    LET base == BaseResolvedToken(tok) IN
    IF ret.kind = "null" \/ ~ret.rec.isResolved THEN
        [base EXCEPT !.referencePath = referenceName,
                     !.isResolved = FALSE,
                     !.resolutionError =
                        IF ret.kind # "null" /\ ret.rec.resolutionError # <<>>
                        THEN ret.rec.resolutionError ELSE FailedErr(referenceName)]
    ELSE
        [base EXCEPT !.value = ret.rec.resolvedValue,
                     !.resolvedValue = ret.rec.resolvedValue,
                     !.referencePath = referenceName]

ReferenceResult(tok, referenceName, ret) ==
    LET base == BaseResolvedToken(tok) IN
    IF ret.kind = "null" \/ ~ret.rec.isResolved THEN
        [base EXCEPT !.referencePath = referenceName,
                     !.isResolved = FALSE,
                     !.resolutionError =
                        IF ret.kind # "null" /\ ret.rec.resolutionError # <<>>
                        THEN ret.rec.resolutionError ELSE FailedErr(referenceName)]
    ELSE IF ret.rec.hasCircularReference \/ IncludesCircular(ret.rec.resolutionError) THEN
        [base EXCEPT !.resolvedValue = ret.rec.resolvedValue,
                     !.referencePath = referenceName,
                     !.isResolved = FALSE,
                     !.hasCircularReference = TRUE,
                     !.resolutionError = ret.rec.resolutionError]
    ELSE
        [base EXCEPT !.resolvedValue = ret.rec.resolvedValue,
                     !.referencePath = referenceName]

\* resolveTokenValue, after this.resolveCompositeValue(token.value) returned cv
CompositeResult(tok, cv) ==
    [BaseResolvedToken(tok) EXCEPT !.resolvedValue = cv.value,
                                   !.isResolved = cv.isResolved,
                                   !.resolutionError = cv.error]

\* a try block that stores what resolveTokenValue returned, whatever is recorded
FinishResolveTokenOverwrite(memo, tokenName, resolvedToken) ==
    [memo |-> MapSet(memo, tokenName, resolvedToken), rec |-> resolvedToken]

\* resolveToken's try block, after resolveTokenValue returned resolvedToken:
\* a record already marked circular is kept
FinishResolveToken(memo, tokenName, resolvedToken) ==
    IF /\ MapHas(memo, tokenName)
       /\ \/ MapGet(memo, tokenName).hasCircularReference
          \/ IncludesCircular(MapGet(memo, tokenName).resolutionError)
    THEN [memo |-> memo, rec |-> MapGet(memo, tokenName)]
    ELSE [memo |-> MapSet(memo, tokenName, resolvedToken), rec |-> resolvedToken]

\* a resolver that never finds a name on its stack
OnStackNever(stack, tokenName) == FALSE

\* this.resolutionStack.has(tokenName)
OnStack(stack, tokenName) == \E i \in 1..Len(stack) : stack[i] = tokenName

\* this.resolutionStack.add(tokenName)
StackAdd(stack, tokenName) ==
    IF \E i \in 1..Len(stack) : stack[i] = tokenName THEN stack
    ELSE Append(stack, tokenName)

\* a finally block that leaves the stack as it is
StackKeep(stack, tokenName) == stack

\* this.resolutionStack.delete(tokenName)
StackDelete(stack, tokenName) == SelectSeq(stack, LAMBDA n : n # tokenName)

\* the value resolveCompositeValue returns when its loop ends
CompositeValueOf(frame) ==
    [t |-> frame.val.t, s |-> <<>>,
     kids |-> [i \in 1..Len(frame.acc) |-> [k |-> frame.val.kids[i].k, v |-> frame.acc[i]]]]

-----------------------------------------------------------------------------
(* The token sets the resolver is run on *)

AllPaths ==
    << << <<"a">> >>,
       << <<"g">>, <<"b">> >>,
       << <<"h">>, <<"c">> >>,
       << <<"k">>, <<"d">> >> >>

\* one alias name per path: a bare name, a dot-joined path, a dash-joined name
AllRefs ==
    << <<"a">>, <<"g", ".", "b">>, <<"h", "-", "c">>, <<"k", ".", "d">> >>

NumPaths == Min(MaxTokens, Len(AllPaths))

AliasV(referenceName) == StrV(<<"{">> \o referenceName \o <<"}">>)

RefMissing == <<"z">>

Literal == StrV(<<"#", "f">>)

\* a string that opens with "{" and is no alias: the brace is never closed
Malformed == StrV(<<"{", "a">>)

SimpleValues ==
    {Literal, AliasV(RefMissing), Malformed}
        \cup {AliasV(AllRefs[i]) : i \in 1..NumPaths}

CompositeValues ==
    { ObjV(<<KV("p", AliasV(AllRefs[1])), KV("q", AliasV(AllRefs[2])), KV("w", Literal)>>),
      ArrV(<<AliasV(AllRefs[NumPaths]), NumV(1), AliasV(RefMissing)>>),
      ObjV(<<KV("p", Literal), KV("q", ArrV(<<AliasV(AllRefs[1])>>))>>),
      ObjV(<<KV("p", Literal), KV("q", NumV(1))>>) }

TokenValues == SimpleValues \cup CompositeValues

\* the orders a set of tokens is supplied in: the order of AllPaths, or its reverse
PathOrders ==
    LET Pick(S) == SelectSeq([i \in 1..NumPaths |-> i], LAMBDA i : i \in S)
        Rev(q) == [i \in 1..Len(q) |-> q[Len(q) + 1 - i]]
    IN UNION {{Pick(S), Rev(Pick(S))} : S \in (SUBSET (1..NumPaths)) \ {{}}}

TokenSets ==
    UNION { { [i \in 1..Len(order) |-> ParsedToken(AllPaths[order[i]], vals[i])] :
                vals \in [1..Len(order) -> TokenValues] } : order \in PathOrders }

\* the keys a caller may pass to resolveToken: every key of the map, and an unknown one
CallKeys == {tokenMap[i].key : i \in 1..Len(tokenMap)} \cup {RefMissing}

-----------------------------------------------------------------------------
(* The resolver as a machine: one action per branch of each method *)

Idle == [op |-> "idle"]
CallRT(key) == [op |-> "resolveToken", key |-> key]
CallRV(tok) == [op |-> "resolveTokenValue", tok |-> tok]
CallCV(val) == [op |-> "resolveCompositeValue", val |-> val]
LoopCV == [op |-> "compositeLoop"]
LoopAll == [op |-> "allLoop"]
RetRec(rec) == [op |-> "return", kind |-> "rec", rec |-> rec]
RetNull == [op |-> "return", kind |-> "null"]
RetCV(cv) == [op |-> "return", kind |-> "cv", cv |-> cv]
Throw == [op |-> "throw"]

\* how ends "running" until the call returns a record or a list ("returned"),
\* returns null ("null") or exits by an exception ("threw")
NoOutcome == [call |-> "none", key |-> <<>>, how |-> "none"]

Push(frame) == frames' = Append(frames, frame)
Pop == frames' = SubSeq(frames, 1, Len(frames) - 1)
TopFrame == frames[Len(frames)]

InitResolver ==
    /\ tokens \in TokenSets
    /\ tokenMap = TokenMapOf(tokens)
    /\ resolvedTokens = <<>>
    /\ resolutionStack = <<>>
    /\ frames = <<>>
    /\ ctl = Idle
    /\ top = "idle"
    /\ allIdx = 0
    /\ calls = 0
    /\ outcome = NoOutcome
    /\ computed = [i \in 1..Len(tokens) |-> 0]
    /\ steps = 0
    /\ files = <<>> /\ fileIdx = 1
    /\ parserTokens = <<>> /\ categories = <<>> /\ errors = <<>>
    /\ result = NoResult /\ report = NoReport /\ catalog = NoCatalog /\ tool = NoTool /\ earlier = NoEarlier

\* a caller invokes resolver.resolveToken(key)
TopResolveToken ==
    /\ steps' = 0 /\ UNCHANGED pvars
    /\ top = "idle" /\ calls < MaxCalls
    /\ \E key \in CallKeys :
          /\ ctl' = CallRT(key)
          /\ outcome' = [call |-> "resolveToken", key |-> key, how |-> "running"]
    /\ top' = "resolveToken"
    /\ calls' = calls + 1
    /\ UNCHANGED <<tokens, tokenMap, resolvedTokens, resolutionStack, frames, allIdx, computed>>

\* a caller invokes resolver.resolveAllTokens()
TopResolveAll ==
    /\ steps' = 0 /\ UNCHANGED pvars
    /\ top = "idle" /\ calls < MaxCalls
    /\ ctl' = LoopAll
    /\ top' = "resolveAllTokens"
    /\ allIdx' = 1
    /\ calls' = calls + 1
    /\ outcome' = [call |-> "resolveAllTokens", key |-> <<>>, how |-> "running"]
    /\ UNCHANGED <<tokens, tokenMap, resolvedTokens, resolutionStack, frames, computed>>

\* resolveAllTokens: one turn of for (const token of this.tokenMap.values())
AllLoop ==
    /\ steps' = steps + 1 /\ UNCHANGED pvars
    /\ ctl.op = "allLoop"
    /\ IF allIdx > Len(tokenMap)
       THEN /\ ctl' = Idle /\ top' = "idle"
            /\ outcome' = [outcome EXCEPT !.how = "returned"]
            /\ allIdx' = 0
       ELSE /\ IF MapHas(resolvedTokens, tokenMap[allIdx].val.name)
               THEN ctl' = LoopAll /\ allIdx' = allIdx + 1
               ELSE ctl' = CallRT(tokenMap[allIdx].val.name) /\ allIdx' = allIdx
            /\ UNCHANGED <<top, outcome>>
    /\ UNCHANGED <<tokens, tokenMap, resolvedTokens, resolutionStack, frames, calls, computed>>

\* resolveToken: the name is already resolved
ResolveTokenMemoized ==
    /\ steps' = steps + 1 /\ UNCHANGED pvars
    /\ ctl.op = "resolveToken"
    /\ MapHas(resolvedTokens, ctl.key)
    /\ ctl' = RetRec(MapGet(resolvedTokens, ctl.key))
    /\ UNCHANGED <<tokens, tokenMap, resolvedTokens, resolutionStack, frames, top, allIdx,
                   calls, outcome, computed>>

\* resolveToken: no such token
ResolveTokenUnknown ==
    /\ steps' = steps + 1 /\ UNCHANGED pvars
    /\ ctl.op = "resolveToken"
    /\ ~MapHas(resolvedTokens, ctl.key)
    /\ ~MapHas(tokenMap, ctl.key)
    /\ ctl' = RetNull
    /\ UNCHANGED <<tokens, tokenMap, resolvedTokens, resolutionStack, frames, top, allIdx,
                   calls, outcome, computed>>

\* what the cycle branch leaves in resolvedTokens; it throws when token.value has
\* no match method (parseTokenReference is handed a non-string)
CycleBranch(memo, m, stack, tokenName) ==
    LET token == MapGet(m, tokenName)
        chain == Append(stack, tokenName)
        marked == MarkChain(memo, m, chain, chain)
        currentRef == ParseTokenReference(token.value.s)
        counterpart == FindReferencedTokenIn(m, currentRef)
    IN IF token.value.t # "str" THEN [memo |-> marked, throws |-> TRUE]
       ELSE IF currentRef # <<>> /\ counterpart.found
       THEN [memo |-> MapSet(marked, counterpart.tok.name,
                             CycResolved(counterpart.tok, chain)),
             throws |-> FALSE]
       ELSE [memo |-> marked, throws |-> FALSE]

\* resolveToken: the name is on the resolution stack
ResolveTokenCycle ==
    /\ steps' = steps + 1 /\ UNCHANGED pvars
    /\ ctl.op = "resolveToken"
    /\ ~MapHas(resolvedTokens, ctl.key)
    /\ MapHas(tokenMap, ctl.key)
    /\ OnStack(resolutionStack, ctl.key)
    /\ LET r == CycleBranch(resolvedTokens, tokenMap, resolutionStack, ctl.key)
       IN /\ resolvedTokens' = r.memo
          /\ ctl' = IF r.throws THEN Throw ELSE RetRec(MapGet(r.memo, ctl.key))
    /\ UNCHANGED <<tokens, tokenMap, resolutionStack, frames, top, allIdx, calls, outcome, computed>>

\* resolveToken: push the name and enter the try block
ResolveTokenEnter ==
    /\ steps' = steps + 1 /\ UNCHANGED pvars
    /\ ctl.op = "resolveToken"
    /\ ~MapHas(resolvedTokens, ctl.key)
    /\ MapHas(tokenMap, ctl.key)
    /\ ~OnStack(resolutionStack, ctl.key)
    /\ resolutionStack' = StackAdd(resolutionStack, ctl.key)
    /\ Push([k |-> "resolveToken", name |-> ctl.key])
    /\ ctl' = CallRV(MapGet(tokenMap, ctl.key))
    /\ UNCHANGED <<tokens, tokenMap, resolvedTokens, top, allIdx, calls, outcome, computed>>

TokenIndex(name) == CHOOSE i \in 1..Len(tokens) : tokens[i].name = name

\* resolveTokenValue: the value is an alias string
ResolveValueReference ==
    /\ steps' = steps + 1 /\ UNCHANGED pvars
    /\ ctl.op = "resolveTokenValue"
    /\ IsAliasValue(ctl.tok.value)
    /\ LET referenceName == ParseTokenReference(ctl.tok.value.s)
           referenced == FindReferencedToken(referenceName)
           base == BaseResolvedToken(ctl.tok)
       IN IF referenceName = <<>>
          THEN /\ ctl' = RetRec([base EXCEPT !.isResolved = FALSE,
                                   !.resolutionError = InvalidFormatErr(ctl.tok.value.s)])
               /\ UNCHANGED frames
          ELSE IF ~referenced.found
          THEN /\ ctl' = RetRec(NotFoundResult(ctl.tok, referenceName))
               /\ UNCHANGED frames
          ELSE /\ Push([k |-> "reference", tok |-> ctl.tok, ref |-> referenceName])
               /\ ctl' = CallRT(referenced.tok.name)
    /\ computed' = [computed EXCEPT ![TokenIndex(ctl.tok.name)] = @ + 1]
    /\ UNCHANGED <<tokens, tokenMap, resolvedTokens, resolutionStack, top, allIdx, calls, outcome>>

\* resolveTokenValue: the value is an object or an array
ResolveValueComposite ==
    /\ steps' = steps + 1 /\ UNCHANGED pvars
    /\ ctl.op = "resolveTokenValue"
    /\ ~IsAliasValue(ctl.tok.value)
    /\ IsComposite(ctl.tok.value)
    /\ Push([k |-> "composite", tok |-> ctl.tok])
    /\ ctl' = CallCV(ctl.tok.value)
    /\ computed' = [computed EXCEPT ![TokenIndex(ctl.tok.name)] = @ + 1]
    /\ UNCHANGED <<tokens, tokenMap, resolvedTokens, resolutionStack, top, allIdx, calls, outcome>>

\* resolveTokenValue: a primitive value needs no resolution
ResolveValuePrimitive ==
    /\ steps' = steps + 1 /\ UNCHANGED pvars
    /\ ctl.op = "resolveTokenValue"
    /\ ~IsAliasValue(ctl.tok.value)
    /\ ~IsComposite(ctl.tok.value)
    /\ ctl' = RetRec(BaseResolvedToken(ctl.tok))
    /\ computed' = [computed EXCEPT ![TokenIndex(ctl.tok.name)] = @ + 1]
    /\ UNCHANGED <<tokens, tokenMap, resolvedTokens, resolutionStack, frames, top, allIdx,
                   calls, outcome>>

\* resolveCompositeValue: start the loop over the items or entries
CompositeEnter ==
    /\ steps' = steps + 1 /\ UNCHANGED pvars
    /\ ctl.op = "resolveCompositeValue"
    /\ Push([k |-> "loop", val |-> ctl.val, i |-> 1, acc |-> <<>>,
             allResolved |-> TRUE, errors |-> <<>>])
    /\ ctl' = LoopCV
    /\ UNCHANGED <<tokens, tokenMap, resolvedTokens, resolutionStack, top, allIdx, calls,
                   outcome, computed>>

\* the error text an item contributes: objects prefix the key, arrays do not
ItemErr(frame, err) ==
    IF frame.val.t = "obj" /\ err # <<>> THEN PrefixErr(frame.val.kids[frame.i].k, err)
    ELSE err

\* the loop frame after item i was settled with value v
Advance(frame, v, ok, err) ==
    [frame EXCEPT !.i = @ + 1,
                  !.acc = Append(@, v),
                  !.allResolved = @ /\ ok,
                  !.errors = @ \o ItemErr(frame, err)]

\* resolveCompositeValue: one turn of the loop, or the return after the last turn
CompositeLoop ==
    /\ steps' = steps + 1 /\ UNCHANGED pvars
    /\ ctl.op = "compositeLoop"
    /\ LET frame == TopFrame
           item == frame.val.kids[frame.i].v
           referenceName == ParseTokenReference(item.s)
           referenced == FindReferencedToken(referenceName)
       IN IF frame.i > Len(frame.val.kids)
          THEN /\ Pop
               /\ ctl' = RetCV([value |-> CompositeValueOf(frame),
                                isResolved |-> frame.allResolved,
                                error |-> frame.errors])
          ELSE IF IsAliasValue(item)
          THEN IF referenceName = <<>>
               THEN /\ frames' = [frames EXCEPT ![Len(frames)] =
                                    Advance(frame, item, FALSE, InvalidItemErr(item.s))]
                    /\ ctl' = LoopCV
               ELSE IF ~referenced.found
               THEN /\ frames' = [frames EXCEPT ![Len(frames)] =
                                    Advance(frame, item, FALSE, NotFoundErr(referenceName))]
                    /\ ctl' = LoopCV
               ELSE /\ ctl' = CallRT(referenced.tok.name)
                    /\ UNCHANGED frames
          ELSE IF IsComposite(item)
          THEN /\ ctl' = CallCV(item)
               /\ UNCHANGED frames
          ELSE /\ frames' = [frames EXCEPT ![Len(frames)] = Advance(frame, item, TRUE, <<>>)]
               /\ ctl' = LoopCV
    /\ UNCHANGED <<tokens, tokenMap, resolvedTokens, resolutionStack, top, allIdx, calls,
                   outcome, computed>>

\* resolveCompositeValue: a resolveToken or nested resolveCompositeValue call returned
CompositeItemReturn ==
    /\ steps' = steps + 1 /\ UNCHANGED pvars
    /\ ctl.op = "return"
    /\ Len(frames) > 0 /\ TopFrame.k = "loop"
    /\ LET frame == TopFrame
           item == frame.val.kids[frame.i].v
       IN frames' = [frames EXCEPT ![Len(frames)] =
            IF ctl.kind = "cv"
            THEN Advance(frame, ctl.cv.value, ctl.cv.isResolved,
                         IF ctl.cv.isResolved THEN <<>> ELSE ctl.cv.error)
            ELSE IF ctl.kind = "rec" /\ ctl.rec.isResolved
            THEN Advance(frame, ctl.rec.resolvedValue, TRUE, <<>>)
            ELSE Advance(frame, item, FALSE,
                         IF ctl.kind = "rec" THEN ctl.rec.resolutionError ELSE <<>>)]
    /\ ctl' = LoopCV
    /\ UNCHANGED <<tokens, tokenMap, resolvedTokens, resolutionStack, top, allIdx, calls,
                   outcome, computed>>

\* resolveTokenValue: this.resolveToken(referencedToken.name) returned
ReferenceReturn ==
    /\ steps' = steps + 1 /\ UNCHANGED pvars
    /\ ctl.op = "return"
    /\ Len(frames) > 0 /\ TopFrame.k = "reference"
    /\ ctl' = RetRec(ReferenceResult(TopFrame.tok, TopFrame.ref, ctl))
    /\ Pop
    /\ UNCHANGED <<tokens, tokenMap, resolvedTokens, resolutionStack, top, allIdx, calls,
                   outcome, computed>>

\* resolveTokenValue: this.resolveCompositeValue(token.value) returned
CompositeReturn ==
    /\ steps' = steps + 1 /\ UNCHANGED pvars
    /\ ctl.op = "return"
    /\ Len(frames) > 0 /\ TopFrame.k = "composite"
    /\ ctl' = RetRec(CompositeResult(TopFrame.tok, ctl.cv))
    /\ Pop
    /\ UNCHANGED <<tokens, tokenMap, resolvedTokens, resolutionStack, top, allIdx, calls,
                   outcome, computed>>

\* resolveToken: resolveTokenValue returned; store the record, then the finally block
ResolveTokenReturn ==
    /\ steps' = steps + 1 /\ UNCHANGED pvars
    /\ ctl.op = "return"
    /\ Len(frames) > 0 /\ TopFrame.k = "resolveToken"
    /\ LET r == FinishResolveToken(resolvedTokens, TopFrame.name, ctl.rec)
       IN /\ resolvedTokens' = r.memo
          /\ ctl' = RetRec(r.rec)
    /\ resolutionStack' = StackDelete(resolutionStack, TopFrame.name)
    /\ Pop
    /\ UNCHANGED <<tokens, tokenMap, top, allIdx, calls, outcome, computed>>

\* the top-level call gets its result
TopReturn ==
    /\ steps' = steps + 1 /\ UNCHANGED pvars
    /\ ctl.op = "return"
    /\ Len(frames) = 0
    /\ IF top = "resolveAllTokens"
       THEN /\ ctl' = LoopAll /\ allIdx' = allIdx + 1
            /\ UNCHANGED <<top, outcome>>
       ELSE /\ ctl' = Idle /\ top' = "idle"
            /\ outcome' = [outcome EXCEPT
                              !.how = IF ctl.kind = "null" THEN "null" ELSE "returned"]
            /\ UNCHANGED allIdx
    /\ UNCHANGED <<tokens, tokenMap, resolvedTokens, resolutionStack, frames, calls, computed>>

\* an exception leaves a method; resolveToken's finally block pops its name
Unwind ==
    /\ steps' = steps + 1 /\ UNCHANGED pvars
    /\ ctl.op = "throw"
    /\ Len(frames) > 0
    /\ resolutionStack' = IF TopFrame.k = "resolveToken"
                          THEN StackDelete(resolutionStack, TopFrame.name)
                          ELSE resolutionStack
    /\ Pop
    /\ UNCHANGED <<tokens, tokenMap, resolvedTokens, ctl, top, allIdx, calls, outcome, computed>>

\* the exception reaches the caller of the top-level call
TopThrow ==
    /\ steps' = steps + 1 /\ UNCHANGED pvars
    /\ ctl.op = "throw"
    /\ Len(frames) = 0
    /\ ctl' = Idle /\ top' = "idle"
    /\ outcome' = [outcome EXCEPT !.how = "threw"]
    /\ allIdx' = 0
    /\ UNCHANGED <<tokens, tokenMap, resolvedTokens, resolutionStack, frames, calls, computed>>

NextResolver ==
    \/ TopResolveToken \/ TopResolveAll \/ AllLoop
    \/ ResolveTokenMemoized \/ ResolveTokenUnknown \/ ResolveTokenCycle \/ ResolveTokenEnter
    \/ ResolveValueReference \/ ResolveValueComposite \/ ResolveValuePrimitive
    \/ CompositeEnter \/ CompositeLoop \/ CompositeItemReturn
    \/ ReferenceReturn \/ CompositeReturn \/ ResolveTokenReturn \/ TopReturn
    \/ Unwind \/ TopThrow

SpecResolver == InitResolver /\ [][NextResolver]_vars

-----------------------------------------------------------------------------
(* The alias graph of a token set *)

\* the name of the token that tok's alias string names, or <<>>
AliasTarget(tok) ==
    IF IsAliasValue(tok.value)
    THEN LET referenced == FindReferencedToken(ParseTokenReference(tok.value.s))
         IN IF referenced.found THEN referenced.tok.name ELSE <<>>
    ELSE <<>>

\* the alias graph over token indexes: AliasGraph[i] is the index of the token
\* that tokens[i] names, or 0
AliasGraph ==
    [i \in 1..Len(tokens) |->
        LET target == AliasTarget(tokens[i])
        IN IF target = <<>> THEN 0
           ELSE CHOOSE j \in 1..Len(tokens) : tokens[j].name = target]

\* the index reached from i after n alias steps, or 0
RECURSIVE AliasWalk(_, _, _)
AliasWalk(g, i, n) == IF n = 0 \/ i = 0 THEN i ELSE AliasWalk(g, g[i], n - 1)

\* the indexes reached from i by zero or more alias steps
AliasReach(g, i) == {AliasWalk(g, i, n) : n \in 0..Len(tokens)} \ {0}

OnAliasCycle(g, i) == \E n \in 1..Len(tokens) : AliasWalk(g, i, n) = i

Recorded(name) == MapHas(resolvedTokens, name)
Record(name) == MapGet(resolvedTokens, name)

\* the top-level call that just ended resolved tok: resolveAllTokens, or
\* resolveToken on one of tok's keys
Asked(tok) ==
    /\ top = "idle"
    /\ outcome.how = "returned"
    /\ \/ outcome.call = "resolveAllTokens"
       \/ /\ outcome.call = "resolveToken"
          /\ MapHas(tokenMap, outcome.key)
          /\ MapGet(tokenMap, outcome.key).name = tok.name

MarkedCircular(name) ==
    /\ Record(name).hasCircularReference
    /\ ~Record(name).isResolved

-----------------------------------------------------------------------------
(* C1: every token on an alias cycle is recorded with hasCircularReference = true
   and isResolved = false, once resolveAllTokens, or resolveToken on a member of
   the cycle, has returned; and a record of such a token never says otherwise. *)
C1_CycleMembersMarked ==
    LET g == AliasGraph IN
    \A i \in 1..Len(tokens) :
        OnAliasCycle(g, i) =>
            \A j \in AliasReach(g, i) :
                /\ Asked(tokens[i]) => Recorded(tokens[j].name)
                /\ Recorded(tokens[j].name) => MarkedCircular(tokens[j].name)

\* resolveAllTokens returned on a set whose tokens form one cycle of length three
C1_Witness ==
    /\ Asked(tokens[1]) /\ outcome.call = "resolveAllTokens"
    /\ Len(tokens) >= 3
    /\ LET g == AliasGraph IN
        /\ OnAliasCycle(g, 1)
        /\ Cardinality(AliasReach(g, 1)) >= 3
    /\ \A i \in 1..Len(tokens) : Recorded(tokens[i].name) /\ MarkedCircular(tokens[i].name)

-----------------------------------------------------------------------------
\* the names of the resolveToken calls in progress, outermost first
NamesInProgress ==
    LET calls_ == SelectSeq(frames, LAMBDA f : f.k = "resolveToken")
    IN [i \in 1..Len(calls_) |-> calls_[i].name]

\* the number of nodes of a value: itself and, for a composite, its parts
RECURSIVE ValueSize(_)
RECURSIVE SumSizes(_)
ValueSize(v) == 1 + SumSizes(v.kids)
SumSizes(kids) == IF Len(kids) = 0 THEN 0 ELSE ValueSize(kids[1].v) + SumSizes(Tail(kids))

RECURSIVE TotalSize(_)
TotalSize(m) == IF Len(m) = 0 THEN 0 ELSE ValueSize(m[1].val.value) + TotalSize(Tail(m))

\* steps a top-level call can take: a fixed number per key of the token map and
\* per node of the values the map holds
StepBound == 4 * Len(tokenMap) + 6 * TotalSize(tokenMap) + 4

(* C2: resolveToken and resolveAllTokens terminate on every token set,
   self-references, cycles and aliases nested in composites included: a call in
   progress ends within StepBound steps (every step of a call counts), and no
   name is on the stack of resolveToken calls in progress twice (the resolution
   stack is exactly that stack). *)
C2_Terminates ==
    /\ steps <= StepBound
    /\ resolutionStack = NamesInProgress
    /\ \A i, j \in 1..Len(resolutionStack) :
          resolutionStack[i] = resolutionStack[j] => i = j

\* a call ended after the recursion met, inside a composite value, a name that was
\* on the stack
C2_Witness ==
    /\ top = "idle" /\ outcome.how \in {"returned", "threw"}
    /\ steps > 2 * Len(tokenMap)
    /\ \E i \in 1..Len(tokens) :
          /\ IsComposite(tokens[i].value)
          /\ Recorded(tokens[i].name)
          /\ Record(tokens[i].name).hasCircularReference

-----------------------------------------------------------------------------
\* the token with the given name
TokenNamed(name) == tokens[TokenIndex(name)]

\* the record a finished top-level call gave for tok
AskedRecord(tok) ==
    IF outcome.call = "resolveToken" THEN Record(outcome.key) ELSE Record(tok.name)

(* C3: resolveAllTokens returns a list and no exception escapes it, whatever the
   reference graph (cycles through composite-valued tokens included). *)
C3_NoExceptionEscapes ==
    ~(top = "idle" /\ outcome.call = "resolveAllTokens" /\ outcome.how = "threw")

-----------------------------------------------------------------------------
\* a value that is neither an alias nor a composite
IsLiteral(v) == ~IsAliasValue(v) /\ ~IsComposite(v)

\* index i heads an alias chain of one or more aliases that ends at a literal
HeadsChain(g, i) ==
    /\ g[i] # 0
    /\ \E n \in 1..Len(tokens) :
          /\ AliasWalk(g, i, n) # 0
          /\ IsLiteral(tokens[AliasWalk(g, i, n)].value)

\* the literal at the end of the chain that starts at i
ChainEnd(g, i) ==
    tokens[CHOOSE k \in AliasReach(g, i) : IsLiteral(tokens[k].value)].value

(* C4: for an acyclic alias chain a -> b -> ... -> literal, every record of a is
   isResolved = true with resolvedValue the literal at the end of the chain and
   referencePath the alias name written in a's own value; a call that resolves
   a leaves such a record. *)
C4_ChainResolves ==
    LET g == AliasGraph IN
    /\ \A e \in 1..Len(resolvedTokens) :
          LET rec == resolvedTokens[e].val
              i == TokenIndex(rec.name)
          IN HeadsChain(g, i) =>
                /\ rec.isResolved
                /\ rec.resolvedValue = ChainEnd(g, i)
                /\ rec.referencePath = ParseTokenReference(tokens[i].value.s)
                /\ rec.resolutionError = <<>>
    /\ \A i \in 1..Len(tokens) :
          (HeadsChain(g, i) /\ Asked(tokens[i])) =>
              \/ outcome.call = "resolveToken" /\ Recorded(outcome.key)
              \/ outcome.call = "resolveAllTokens" /\ Recorded(tokens[i].name)

\* a chain of three tokens, a -> b -> c -> literal, was resolved from its head
C4_Witness ==
    /\ Len(tokens) >= 3
    /\ LET g == AliasGraph IN
          \E i \in 1..Len(tokens) :
              /\ HeadsChain(g, i)
              /\ Cardinality(AliasReach(g, i)) >= 3
              /\ Asked(tokens[i])
              /\ AskedRecord(tokens[i]).isResolved
              /\ AskedRecord(tokens[i]).resolvedValue = ChainEnd(g, i)
              /\ AskedRecord(tokens[i]).referencePath # tokens[g[g[i]]].name

-----------------------------------------------------------------------------
\* the token an alias string names, as findReferencedToken finds it
ReferentOf(s) == FindReferencedToken(ParseTokenReference(s))

\* an alias whose referent has a record with isResolved = true
Resolvable(s) ==
    LET referenced == ReferentOf(s)
    IN /\ referenced.found
       /\ Recorded(referenced.tok.name)
       /\ Record(referenced.tok.name).isResolved

\* the aliases a value contains, at any depth, that satisfy / fail Resolvable
RECURSIVE CountAliases(_, _)
RECURSIVE CountInKids(_, _)
CountAliases(v, wanted) ==
    IF IsAliasValue(v) THEN (IF Resolvable(v.s) = wanted THEN 1 ELSE 0)
    ELSE CountInKids(v.kids, wanted)
CountInKids(kids, wanted) ==
    IF Len(kids) = 0 THEN 0
    ELSE CountAliases(kids[1].v, wanted) + CountInKids(Tail(kids), wanted)

\* the value with every resolvable alias replaced by its referent's resolved
\* value and everything else as it was
RECURSIVE BestEffort(_)
BestEffort(v) ==
    IF IsAliasValue(v)
    THEN IF Resolvable(v.s) THEN Record(ReferentOf(v.s).tok.name).resolvedValue ELSE v
    ELSE [v EXCEPT !.kids = [i \in 1..Len(v.kids) |->
                                [k |-> v.kids[i].k, v |-> BestEffort(v.kids[i].v)]]]

\* the first top-level call on the resolver has returned
FirstCallReturned == top = "idle" /\ calls = 1 /\ outcome.how = "returned"

(* C5: once a call has returned, a composite token whose value holds several
   aliases, at least one of them unresolvable, is recorded with isResolved = false
   and a resolvedValue of the same shape: resolvable aliases replaced by their
   referents' resolved values, unresolvable ones kept as written, other fields
   unchanged. *)
C5_CompositeBestEffort ==
    FirstCallReturned =>
        \A e \in 1..Len(resolvedTokens) :
            LET rec == resolvedTokens[e].val
                value == TokenNamed(rec.name).value
            IN (/\ IsComposite(value)
                /\ CountAliases(value, TRUE) + CountAliases(value, FALSE) >= 2
                /\ CountAliases(value, FALSE) >= 1) =>
                   /\ ~rec.isResolved
                   /\ rec.resolvedValue = BestEffort(value)

-----------------------------------------------------------------------------
\* a token whose value is an alias that findReferencedToken matches with no token
NotFoundToken(tok) == IsAliasValue(tok.value) /\ ~ReferentOf(tok.value.s).found

\* every record of a not-found token is unresolved, keeps the alias string and
\* reports the missing name; a call asking for such a token ends without an
\* exception and leaves the record
C6_Recorded ==
    /\ \A e \in 1..Len(resolvedTokens) :
          LET rec == resolvedTokens[e].val
              tok == TokenNamed(rec.name)
          IN NotFoundToken(tok) =>
                /\ ~rec.isResolved
                /\ rec.resolvedValue = tok.value
                /\ rec.originalValue = tok.value
                /\ rec.resolutionError = NotFoundErr(ParseTokenReference(tok.value.s))
                /\ ~rec.hasCircularReference
    /\ \A i \in 1..Len(tokens) :
          NotFoundToken(tokens[i]) =>
              /\ Asked(tokens[i]) => Recorded(IF outcome.call = "resolveToken"
                                              THEN outcome.key ELSE tokens[i].name)
              /\ (/\ top = "idle"
                  /\ outcome.call = "resolveToken"
                  /\ MapHas(tokenMap, outcome.key)
                  /\ MapGet(tokenMap, outcome.key).name = tokens[i].name)
                    => outcome.how = "returned"

\* while resolveToken works on a not-found token, every record under another key
\* stays as it is and none is dropped
C6_OthersKept ==
    (/\ Len(frames) > 0
     /\ TopFrame.k = "resolveToken"
     /\ NotFoundToken(MapGet(tokenMap, TopFrame.name))) =>
        /\ Len(resolvedTokens') >= Len(resolvedTokens)
        /\ \A e \in 1..Len(resolvedTokens') :
              resolvedTokens'[e].key # TopFrame.name =>
                  /\ e <= Len(resolvedTokens)
                  /\ resolvedTokens'[e] = resolvedTokens[e]

(* C6: a token whose alias names no token is recorded with isResolved = false,
   resolvedValue equal to its alias string and a "Referenced token not found"
   error; asking for it raises no exception, and recording it leaves the records
   of the other tokens as they were. *)
C6_NotFoundRecorded == []C6_Recorded /\ [][C6_OthersKept]_rvars

\* resolveAllTokens returned with a not-found token recorded next to a resolved one
C6_Witness ==
    /\ top = "idle" /\ outcome.call = "resolveAllTokens" /\ outcome.how = "returned"
    /\ \E i, j \in 1..Len(tokens) :
          /\ NotFoundToken(tokens[i])
          /\ Recorded(tokens[i].name)
          /\ ~Record(tokens[i].name).isResolved
          /\ Record(tokens[i].name).resolvedValue = AliasV(RefMissing)
          /\ i # j
          /\ Recorded(tokens[j].name)
          /\ Record(tokens[j].name).isResolved

-----------------------------------------------------------------------------
\* a string value that opens with "{" and is not of the form {name}
MalformedAlias(v) == v.t = "str" /\ Len(v.s) >= 1 /\ v.s[1] = "{" /\ ~IsTokenReference(v.s)

(* C7: every record of a token whose string value is a malformed alias (it opens
   with "{" and does not match "{" + one or more non-"}" characters + "}") has
   isResolved = false and a resolutionError. *)
C7_MalformedFlagged ==
    \A e \in 1..Len(resolvedTokens) :
        LET rec == resolvedTokens[e].val
        IN MalformedAlias(TokenNamed(rec.name).value) =>
              /\ ~rec.isResolved
              /\ rec.resolutionError # <<>>

-----------------------------------------------------------------------------
(* Token documents: JSON objects whose keys are character strings *)

KeyType == <<"$", "t", "y", "p", "e">>
KeyValue == <<"$", "v", "a", "l", "u", "e">>
KeyDescription == <<"$", "d", "e", "s", "c", "r", "i", "p", "t", "i", "o", "n">>
KeyExtensions == <<"$", "e", "x", "t", "e", "n", "s", "i", "o", "n", "s">>
KeySchema == <<"$", "s", "c", "h", "e", "m", "a">>

TypeColor == <<"c", "o", "l", "o", "r">>
TypeDimension == <<"d", "i", "m", "e", "n", "s", "i", "o", "n">>
TypeFontFamily == <<"f", "o", "n", "t", "F", "a", "m", "i", "l", "y">>
TypeFontWeight == <<"f", "o", "n", "t", "W", "e", "i", "g", "h", "t">>
TypeDuration == <<"d", "u", "r", "a", "t", "i", "o", "n">>
TypeCubicBezier == <<"c", "u", "b", "i", "c", "B", "e", "z", "i", "e", "r">>
TypeNumber == <<"n", "u", "m", "b", "e", "r">>
TypeStrokeStyle == <<"s", "t", "r", "o", "k", "e", "S", "t", "y", "l", "e">>
TypeBorder == <<"b", "o", "r", "d", "e", "r">>
TypeTransition == <<"t", "r", "a", "n", "s", "i", "t", "i", "o", "n">>
TypeShadow == <<"s", "h", "a", "d", "o", "w">>
TypeGradient == <<"g", "r", "a", "d", "i", "e", "n", "t">>
TypeTypography == <<"t", "y", "p", "o", "g", "r", "a", "p", "h", "y">>

\* TokenTypeSchema: the type tags of the W3C format
TokenTypeSchema ==
    {TypeColor, TypeDimension, TypeFontFamily, TypeFontWeight, TypeDuration, TypeCubicBezier, TypeNumber, TypeStrokeStyle, TypeBorder, TypeTransition, TypeShadow, TypeGradient, TypeTypography}

\* key in node
HasKey(node, key) == \E i \in 1..Len(node.kids) : node.kids[i].k = key

\* node[key]
Field(node, key) == node.kids[CHOOSE i \in 1..Len(node.kids) : node.kids[i].k = key].v

\* key.startsWith('$')
IsMetaKey(key) == Len(key) > 0 /\ key[1] = "$"

IsString(v) == v.t = "str"
IsNumber(v) == v.t = "num"
\* what zod takes for an object: arrays are not
IsObject(v) == v.t = "obj"
IsArray(v) == v.t = "arr"

-----------------------------------------------------------------------------
(* The zod schemas.  A schema's result on a value is "valid", "dirty" (a refinement,
   a regex or the strict-keys check failed: the value is kept and an issue is
   recorded) or "aborted" (the value has the wrong type or a required key is
   missing). *)

\* an object's status from the statuses of its fields
MergeStatus(statuses) ==
    IF "aborted" \in statuses THEN "aborted"
    ELSE IF "dirty" \in statuses THEN "dirty"
    ELSE "valid"

OkIf(cond) == IF cond THEN "valid" ELSE "aborted"

\* z.string().optional() under key
OptionalString(node, key) == OkIf(~HasKey(node, key) \/ IsString(Field(node, key)))

\* z.record(z.any()).optional() under key
OptionalRecord(node, key) == OkIf(~HasKey(node, key) \/ IsObject(Field(node, key)))

\* TokenTypeSchema.optional() under $type
OptionalType(node) ==
    OkIf(~HasKey(node, KeyType)
         \/ (IsString(Field(node, KeyType)) /\ Field(node, KeyType).s \in TokenTypeSchema))

\* z.union([z.string(), z.array(z.string())])
StringOrStrings(v) ==
    IsString(v) \/ (IsArray(v) /\ \A i \in 1..Len(v.kids) : IsString(v.kids[i].v))

\* z.union([z.number(), z.string()])
NumberOrString(v) == IsNumber(v) \/ IsString(v)

HexDigits ==
    {"0", "1", "2", "3", "4", "5", "6", "7", "8", "9",
     "a", "b", "c", "d", "e", "f", "A", "B", "C", "D", "E", "F"}

\* /^#([0-9a-fA-F]{3}|[0-9a-fA-F]{6})$/
IsHex(s) ==
    /\ Len(s) \in {4, 7}
    /\ s[1] = "#"
    /\ \A i \in 2..Len(s) : s[i] \in HexDigits

CssKeywords == {<<"t", "r", "a", "n", "s", "p", "a", "r", "e", "n", "t">>, <<"i", "n", "h", "e", "r", "i", "t">>, <<"c", "u", "r", "r", "e", "n", "t", "C", "o", "l", "o", "r">>}

\* ColorTokenSchema.$value: a string, refined to hex, alias or CSS keyword
ColorValue(node) ==
    IF ~HasKey(node, KeyValue) \/ ~IsString(Field(node, KeyValue)) THEN "aborted"
    ELSE LET val == Field(node, KeyValue).s
         IN IF IsHex(val) \/ IsTokenReference(val) \/ val \in CssKeywords THEN "valid"
            ELSE "dirty"

\* the $value object of a typography token
TypographyValue(v) ==
    /\ IsObject(v)
    /\ HasKey(v, <<"f", "o", "n", "t", "F", "a", "m", "i", "l", "y">>) /\ StringOrStrings(Field(v, <<"f", "o", "n", "t", "F", "a", "m", "i", "l", "y">>))
    /\ HasKey(v, <<"f", "o", "n", "t", "S", "i", "z", "e">>) /\ IsString(Field(v, <<"f", "o", "n", "t", "S", "i", "z", "e">>))
    /\ HasKey(v, <<"f", "o", "n", "t", "W", "e", "i", "g", "h", "t">>) /\ NumberOrString(Field(v, <<"f", "o", "n", "t", "W", "e", "i", "g", "h", "t">>))
    /\ HasKey(v, <<"l", "e", "t", "t", "e", "r", "S", "p", "a", "c", "i", "n", "g">>) => IsString(Field(v, <<"l", "e", "t", "t", "e", "r", "S", "p", "a", "c", "i", "n", "g">>))
    /\ HasKey(v, <<"l", "i", "n", "e", "H", "e", "i", "g", "h", "t">>) => NumberOrString(Field(v, <<"l", "i", "n", "e", "H", "e", "i", "g", "h", "t">>))

\* the $value object of a border token
BorderValue(v) ==
    /\ IsObject(v)
    /\ \A key \in {<<"c", "o", "l", "o", "r">>, <<"w", "i", "d", "t", "h">>, <<"s", "t", "y", "l", "e">>} : HasKey(v, key) /\ IsString(Field(v, key))

\* one shadow layer
ShadowLayer(v) ==
    /\ IsObject(v)
    /\ \A key \in {<<"c", "o", "l", "o", "r">>, <<"o", "f", "f", "s", "e", "t", "X">>, <<"o", "f", "f", "s", "e", "t", "Y">>, <<"b", "l", "u", "r">>} : HasKey(v, key) /\ IsString(Field(v, key))
    /\ HasKey(v, <<"s", "p", "r", "e", "a", "d">>) => IsString(Field(v, <<"s", "p", "r", "e", "a", "d">>))

\* the $value of a shadow token: a layer or an array of layers
ShadowValue(v) ==
    ShadowLayer(v) \/ (IsArray(v) /\ \A i \in 1..Len(v.kids) : ShadowLayer(v.kids[i].v))

\* a grammar in which a number token takes what a fontWeight token takes
TypedValueNumberText(type, node) ==
    IF type = TypeColor THEN ColorValue(node)
    ELSE IF ~HasKey(node, KeyValue) THEN "aborted"
    ELSE LET v == Field(node, KeyValue)
         IN OkIf(CASE type \in {TypeDimension, TypeDuration} -> IsString(v)
                   [] type = TypeFontFamily -> StringOrStrings(v)
                   [] type \in {TypeFontWeight, TypeNumber} -> NumberOrString(v)
                   [] type = TypeTypography -> TypographyValue(v)
                   [] type = TypeBorder -> BorderValue(v)
                   [] type = TypeShadow -> ShadowValue(v)
                   [] OTHER -> FALSE)

\* the $value check of the schema that BaseTokenSchema.extend builds for a type
TypedValue(type, node) ==
    IF type = TypeColor THEN ColorValue(node)
    ELSE IF ~HasKey(node, KeyValue) THEN "aborted"
    ELSE LET v == Field(node, KeyValue)
         IN OkIf(CASE type \in {TypeDimension, TypeDuration} -> IsString(v)
                   [] type = TypeFontFamily -> StringOrStrings(v)
                   [] type = TypeFontWeight -> NumberOrString(v)
                   [] type = TypeNumber -> IsNumber(v)
                   [] type = TypeTypography -> TypographyValue(v)
                   [] type = TypeBorder -> BorderValue(v)
                   [] type = TypeShadow -> ShadowValue(v)
                   [] OTHER -> FALSE)

\* the types SpecificTokenSchema has an alternative for
SpecificTypes ==
    {TypeColor, TypeDimension, TypeFontFamily, TypeFontWeight, TypeDuration, TypeNumber,
     TypeTypography, TypeBorder, TypeShadow}

\* a zod issue: the key path it is reported at and its message
Issue(path, message) == [path |-> path, message |-> message]

\* what a schema returns for a value: its status, the parsed value and the issues it
\* recorded
Result(status, value, issues) == [status |-> status, value |-> value, issues |-> issues]

\* an object cut down to the keys of a schema's shape, in the shape's order
KeepKeys(node, keys) ==
    LET present == SelectSeq(keys, LAMBDA key : HasKey(node, key))
    IN ObjV([i \in 1..Len(present) |-> KV(present[i], Field(node, present[i]))])

\* the parsed $value of a typed token: z.object drops the keys it does not declare
TypedValueOutput(type, v) ==
    IF type = TypeTypography /\ IsObject(v)
    THEN KeepKeys(v, <<<<"f", "o", "n", "t", "F", "a", "m", "i", "l", "y">>, <<"f", "o", "n", "t", "S", "i", "z", "e">>, <<"f", "o", "n", "t", "W", "e", "i", "g", "h", "t">>, <<"l", "e", "t", "t", "e", "r", "S", "p", "a", "c", "i", "n", "g">>, <<"l", "i", "n", "e", "H", "e", "i", "g", "h", "t">>>>)
    ELSE IF type = TypeBorder /\ IsObject(v)
    THEN KeepKeys(v, <<<<"c", "o", "l", "o", "r">>, <<"w", "i", "d", "t", "h">>, <<"s", "t", "y", "l", "e">>>>)
    ELSE IF type = TypeShadow /\ IsObject(v)
    THEN KeepKeys(v, <<<<"c", "o", "l", "o", "r">>, <<"o", "f", "f", "s", "e", "t", "X">>, <<"o", "f", "f", "s", "e", "t", "Y">>, <<"b", "l", "u", "r">>, <<"s", "p", "r", "e", "a", "d">>>>)
    ELSE IF type = TypeShadow /\ IsArray(v)
    THEN [v EXCEPT !.kids = [i \in 1..Len(v.kids) |->
            KV(v.kids[i].k,
               IF IsObject(v.kids[i].v)
               THEN KeepKeys(v.kids[i].v, <<<<"c", "o", "l", "o", "r">>, <<"o", "f", "f", "s", "e", "t", "X">>, <<"o", "f", "f", "s", "e", "t", "Y">>, <<"b", "l", "u", "r">>, <<"s", "p", "r", "e", "a", "d">>>>)
               ELSE v.kids[i].v)]]
    ELSE v

\* the parsed output of a typed token
TypedOutput(node) ==
    LET typed == KeepKeys(node, <<KeyType, KeyValue, KeyDescription, KeyExtensions>>)
    IN [typed EXCEPT !.kids = [i \in 1..Len(typed.kids) |->
            IF typed.kids[i].k = KeyValue
            THEN KV(KeyValue, TypedValueOutput(Field(node, KeyType).s, typed.kids[i].v))
            ELSE typed.kids[i]]]

\* a schema's result from its status; the issues of an aborted schema never leave
\* the union it is an alternative of
ResultOf(status, value, path, dirtyIssue) ==
    Result(status, value,
           IF status = "valid" THEN <<>>
           ELSE IF status = "dirty" THEN <<dirtyIssue>>
           ELSE <<Issue(path, "Invalid input")>>)

\* SpecificTokenSchema: the union of the typed schemas; $type is a literal in each,
\* so at most one alternative gets past it
SpecificTokenSchema(node, path) ==
    IF ~IsObject(node) THEN ResultOf("aborted", node, path, <<>>)
    ELSE IF ~HasKey(node, KeyType) \/ ~IsString(Field(node, KeyType))
    THEN ResultOf("aborted", node, path, <<>>)
    ELSE IF Field(node, KeyType).s \notin SpecificTypes
    THEN ResultOf("aborted", node, path, <<>>)
    ELSE ResultOf(MergeStatus({TypedValue(Field(node, KeyType).s, node),
                               OptionalString(node, KeyDescription),
                               OptionalRecord(node, KeyExtensions)}),
                  TypedOutput(node), path,
                  Issue(Append(path, KeyValue), "Invalid color value"))

\* the status of a strict object: a key outside the shape makes it dirty
StrictStatus(shape, hasExtraKeys) ==
    IF shape = "aborted" THEN "aborted" ELSE IF hasExtraKeys THEN "dirty" ELSE "valid"

\* UntypedTokenSchema: strict, so any key besides its three is an issue
UntypedTokenSchema(node, path) ==
    IF ~IsObject(node) THEN ResultOf("aborted", node, path, <<>>)
    ELSE ResultOf(
            StrictStatus(
                MergeStatus({OkIf(/\ HasKey(node, KeyValue)
                                  /\ \/ IsString(Field(node, KeyValue))
                                     \/ IsNumber(Field(node, KeyValue))
                                     \/ IsObject(Field(node, KeyValue))),
                             OptionalString(node, KeyDescription),
                             OptionalRecord(node, KeyExtensions)}),
                \E i \in 1..Len(node.kids) :
                    node.kids[i].k \notin {KeyValue, KeyDescription, KeyExtensions}),
            KeepKeys(node, <<KeyValue, KeyDescription, KeyExtensions>>), path,
            Issue(path, "Unrecognized key(s) in object"))

\* TokenReferenceSchema: $value is a string matching /^\{[^}]+\}$/
TokenReferenceSchema(node, path) ==
    IF ~IsObject(node) THEN ResultOf("aborted", node, path, <<>>)
    ELSE ResultOf(
            MergeStatus(
                {IF ~HasKey(node, KeyValue) \/ ~IsString(Field(node, KeyValue))
                 THEN "aborted"
                 ELSE IF IsTokenReference(Field(node, KeyValue).s) THEN "valid"
                 ELSE "dirty",
                 OptionalType(node),
                 OptionalString(node, KeyDescription),
                 OptionalRecord(node, KeyExtensions)}),
            KeepKeys(node, <<KeyValue, KeyType, KeyDescription, KeyExtensions>>), path,
            Issue(Append(path, KeyValue), "Invalid"))

\* z.union on the results of its options: the first valid one, else the first dirty
\* one with its issues, else one invalid_union issue at the value's own path
Union(options, input, path) ==
    IF \E i \in 1..Len(options) : options[i].status = "valid"
    THEN options[CHOOSE i \in 1..Len(options) :
                    /\ options[i].status = "valid"
                    /\ \A j \in 1..(i - 1) : options[j].status # "valid"]
    ELSE IF \E i \in 1..Len(options) : options[i].status = "dirty"
    THEN options[CHOOSE i \in 1..Len(options) :
                    /\ options[i].status = "dirty"
                    /\ \A j \in 1..(i - 1) : options[j].status # "dirty"]
    ELSE Result("aborted", input, <<Issue(path, "Invalid input")>>)

\* TokenSchema = z.union([SpecificTokenSchema, UntypedTokenSchema, TokenReferenceSchema])
TokenSchema(node, path) ==
    Union(<<SpecificTokenSchema(node, path), UntypedTokenSchema(node, path),
            TokenReferenceSchema(node, path)>>, node, path)

\* the metadata keys TokenGroupSchema declares
GroupShapeKeys == <<KeySchema, KeyType, KeyDescription, KeyExtensions>>

IsShapeKey(key) == \E k \in 1..Len(GroupShapeKeys) : GroupShapeKeys[k] = key

\* a group's own metadata keys
GroupShape(node) ==
    MergeStatus({OptionalString(node, KeySchema), OptionalType(node),
                 OptionalString(node, KeyDescription), OptionalRecord(node, KeyExtensions)})

\* the issues of a group's own metadata keys
ShapeIssues(node, path) ==
    (IF OptionalString(node, KeySchema) = "aborted"
     THEN <<Issue(Append(path, KeySchema), "Expected string")>> ELSE <<>>)
    \o (IF OptionalType(node) = "aborted"
        THEN <<Issue(Append(path, KeyType), "Invalid enum value")>> ELSE <<>>)
    \o (IF OptionalString(node, KeyDescription) = "aborted"
        THEN <<Issue(Append(path, KeyDescription), "Expected string")>> ELSE <<>>)
    \o (IF OptionalRecord(node, KeyExtensions) = "aborted"
        THEN <<Issue(Append(path, KeyExtensions), "Expected object")>> ELSE <<>>)

\* the issues of a group's members, in order
RECURSIVE MemberIssues(_)
MemberIssues(members) ==
    IF Len(members) = 0 THEN <<>>
    ELSE members[1].r.issues \o MemberIssues(Tail(members))

\* an object's result from the results of its members: any aborted member aborts
\* it, and every member's issues are its own
GroupResult(node, path, members) ==
    Result(MergeStatus({GroupShape(node)}
                       \cup {members[i].r.status : i \in 1..Len(members)}),
           ObjV(KeepKeys(node, GroupShapeKeys).kids
                \o [i \in 1..Len(members) |-> KV(members[i].k, members[i].r.value)]),
           ShapeIssues(node, path) \o MemberIssues(members))

\* TokenGroupSchema: every key outside the shape holds a token or a group
\* (catchall(z.union([TokenSchema, TokenGroupSchema])))
RECURSIVE TokenGroupSchema(_, _)
RECURSIVE GroupMembers(_, _, _)
RECURSIVE GroupMember(_, _)
TokenGroupSchema(node, path) ==
    IF ~IsObject(node) THEN Result("aborted", node, <<Issue(path, "Expected object")>>)
    ELSE GroupResult(node, path, GroupMembers(node, path, 1))
GroupMembers(node, path, i) ==
    IF i > Len(node.kids) THEN <<>>
    ELSE (IF IsShapeKey(node.kids[i].k) THEN <<>>
          ELSE <<[k |-> node.kids[i].k,
                  r |-> GroupMember(node.kids[i].v, Append(path, node.kids[i].k))]>>)
         \o GroupMembers(node, path, i + 1)
GroupMember(v, path) ==
    Union(<<TokenSchema(v, path), TokenGroupSchema(v, path)>>, v, path)

\* validateNode of the superRefine callback: the issues it adds and its result
RECURSIVE ValidateNode(_, _)
RECURSIVE ValidateChildren(_, _, _, _)
ValidateNode(node, path) ==
    IF ~IsObject(node) THEN [issues |-> <<>>, found |-> FALSE]
    ELSE IF /\ HasKey(node, KeyType) \/ HasKey(node, KeyValue)
            /\ TokenSchema(node, path).status # "valid"
    THEN [issues |-> <<Issue(path, "Invalid token structure")>>, found |-> FALSE]
    ELSE ValidateChildren(node, path, 1,
            [issues |-> <<>>, found |-> HasKey(node, KeyType) \/ HasKey(node, KeyValue)])
ValidateChildren(node, path, i, acc) ==
    IF i > Len(node.kids) THEN acc
    ELSE IF IsMetaKey(node.kids[i].k) THEN ValidateChildren(node, path, i + 1, acc)
    ELSE ValidateChildren(node, path, i + 1,
            [issues |-> acc.issues
                        \o ValidateNode(node.kids[i].v, Append(path, node.kids[i].k)).issues,
             found |-> acc.found
                       \/ ValidateNode(node.kids[i].v, Append(path, node.kids[i].k)).found])

\* superRefine: the callback runs on the parsed value unless the parse was aborted
SuperRefine(parsed) ==
    IF parsed.status = "aborted" THEN parsed
    ELSE [parsed EXCEPT !.issues = @ \o ValidateNode(parsed.value, <<>>).issues]

\* DesignTokensFileSchema = TokenGroupSchema.superRefine(...)
DesignTokensFileSchema(data) == SuperRefine(TokenGroupSchema(data, <<>>))

\* what parse() does with a schema's result: the value, or a ZodError whose issues
\* the thrown Error lists, each with its path joined by "."
Outcome(parsed) ==
    [ok |-> parsed.issues = <<>>,
     data |-> parsed.value,
     issues |-> [i \in 1..Len(parsed.issues) |->
                    Issue(Join(parsed.issues[i].path, "."), parsed.issues[i].message)]]

\* validateDesignTokensFile: the parsed document, or the issues the Error lists
ValidateDesignTokensFile(data) == Outcome(DesignTokensFileSchema(data))

-----------------------------------------------------------------------------
(* Flattening a validated document: TokenFileParser *)

\* a property a JavaScript object does not have
Undefined == [t |-> "undefined", s |-> <<>>, kids |-> <<>>]

\* isToken
IsToken(value) == TokenSchema(value, <<>>).status = "valid"

\* the key of the i-th entry of Object.entries(value): an array's keys are its indexes
EntryKey(value, i) ==
    IF IsArray(value)
    THEN <<(<<"0", "1", "2", "3", "4", "5", "6", "7", "8", "9">>)[i]>>
    ELSE value.kids[i].k

\* isTokenGroup: an object or array that is no token and whose members, metadata
\* keys apart, are tokens or groups
RECURSIVE IsTokenGroup(_)
IsTokenGroup(value) ==
    /\ IsObject(value) \/ IsArray(value)
    /\ ~IsToken(value)
    /\ \A i \in 1..Len(value.kids) :
          \/ IsMetaKey(EntryKey(value, i))
          \/ IsToken(value.kids[i].v)
          \/ IsTokenGroup(value.kids[i].v)

\* the ParsedToken extractTokensFromGroup builds for the token at currentPath
ParsedTokenOf(currentPath, value) ==
    [name |-> Join(currentPath, "-"),
     path |-> currentPath,
     value |-> Field(value, KeyValue),
     type |-> IF HasKey(value, KeyType) /\ IsString(Field(value, KeyType))
              THEN Field(value, KeyType).s ELSE <<>>,
     description |-> IF HasKey(value, KeyDescription)
                     THEN Field(value, KeyDescription) ELSE Undefined,
     extensions |-> IF HasKey(value, KeyExtensions)
                    THEN Field(value, KeyExtensions) ELSE Undefined]

\* this.tokens.set(tokenName, parsedToken) and the push onto the token's category
StoreToken(st, parsedToken) ==
    LET category == parsedToken.path[1]
    IN [tokens |-> MapSet(st.tokens, parsedToken.name, parsedToken),
        categories |->
            MapSet(st.categories, category,
                   Append(IF MapHas(st.categories, category)
                          THEN MapGet(st.categories, category) ELSE <<>>, parsedToken))]

\* extractTokensFromGroup, from entry i of the group on; st holds the parser's
\* tokens and categories
RECURSIVE ExtractTokensFromGroup(_, _, _, _)
ExtractTokensFromGroup(group, path, i, st) ==
    IF i > Len(group.kids) THEN st
    ELSE LET key == EntryKey(group, i)
             value == group.kids[i].v
             currentPath == Append(path, key)
         IN IF IsMetaKey(key) THEN ExtractTokensFromGroup(group, path, i + 1, st)
            ELSE IF IsToken(value)
            THEN ExtractTokensFromGroup(group, path, i + 1,
                                        StoreToken(st, ParsedTokenOf(currentPath, value)))
            ELSE IF IsTokenGroup(value)
            THEN ExtractTokensFromGroup(group, path, i + 1,
                                        ExtractTokensFromGroup(value, currentPath, 1, st))
            ELSE ExtractTokensFromGroup(group, path, i + 1, st)

-----------------------------------------------------------------------------
(* Ordering and categories *)

LowerCase == <<"a", "b", "c", "d", "e", "f", "g", "h", "i", "j", "k", "l", "m", "n", "o", "p", "q", "r", "s", "t", "u", "v", "w", "x", "y", "z">>
UpperCase == <<"A", "B", "C", "D", "E", "F", "G", "H", "I", "J", "K", "L", "M", "N", "O", "P", "Q", "R", "S", "T", "U", "V", "W", "X", "Y", "Z">>

\* one character of toLowerCase()
LowerChar(c) ==
    IF \E i \in 1..26 : UpperCase[i] = c
    THEN LowerCase[CHOOSE i \in 1..26 : UpperCase[i] = c]
    ELSE c

\* s.toLowerCase()
ToLowerCase(s) == [i \in 1..Len(s) |-> LowerChar(s[i])]

\* the characters of names in code-unit order
CodeUnits ==
    <<"#", "$", "-", ".", "0", "1", "2", "3", "4", "5", "6", "7", "8", "9">>
        \o UpperCase \o <<"_">> \o LowerCase \o <<"{", "}">>

CodeOf(c) == CHOOSE i \in 1..Len(CodeUnits) : CodeUnits[i] = c

\* a < b by UTF-16 code units (the default order of Array.prototype.sort)
RECURSIVE CodeLess(_, _)
CodeLess(a, b) ==
    IF Len(b) = 0 THEN FALSE
    ELSE IF Len(a) = 0 THEN TRUE
    ELSE IF a[1] = b[1] THEN CodeLess(Tail(a), Tail(b))
    ELSE CodeOf(a[1]) < CodeOf(b[1])

\* a.localeCompare(b) < 0: letters compare without case first, punctuation comes
\* before digits and digits before letters; between names that differ in case
\* only, lower case comes first
LocaleLess(a, b) ==
    LET la == ToLowerCase(a)
        lb == ToLowerCase(b)
    IN IF la # lb THEN CodeLess(la, lb) ELSE CodeLess(b, a)

\* seq with item put in before the first element that sorts after it
RECURSIVE InsertByName(_, _)
InsertByName(seq, item) ==
    IF Len(seq) = 0 THEN <<item>>
    ELSE IF LocaleLess(item.name, seq[1].name) THEN <<item>> \o seq
    ELSE <<seq[1]>> \o InsertByName(Tail(seq), item)

\* seq.sort((a, b) => a.name.localeCompare(b.name)), a stable sort
RECURSIVE SortByName(_)
SortByName(seq) ==
    IF Len(seq) = 0 THEN <<>>
    ELSE InsertByName(SortByName(SubSeq(seq, 1, Len(seq) - 1)), seq[Len(seq)])

\* haystack.includes(needle)
Includes(haystack, needle) ==
    \E i \in 0..(Len(haystack) - Len(needle)) :
        SubSeq(haystack, i + 1, i + Len(needle)) = needle

\* knownCategoryOrder, which lists the keys of KNOWN_CATEGORIES
KnownCategoryOrder ==
    <<<<"c", "o", "l", "o", "r", "s">>,
      <<"t", "y", "p", "o", "g", "r", "a", "p", "h", "y">>,
      <<"s", "p", "a", "c", "i", "n", "g">>, <<"b", "o", "r", "d", "e", "r", "s">>,
      <<"s", "h", "a", "d", "o", "w", "s">>,
      <<"a", "n", "i", "m", "a", "t", "i", "o", "n", "s">>,
      <<"c", "o", "m", "p", "o", "n", "e", "n", "t", "s">>>>

SpacingKeywords ==
    {<<"s", "p", "a", "c", "i", "n", "g">>, <<"s", "p", "a", "c", "e">>,
     <<"m", "a", "r", "g", "i", "n">>, <<"p", "a", "d", "d", "i", "n", "g">>,
     <<"g", "a", "p">>, <<"i", "n", "s", "e", "t">>, <<"x", "s">>, <<"s", "m">>,
     <<"m", "d">>, <<"l", "g">>, <<"x", "l">>, <<"2", "x", "l">>, <<"3", "x", "l">>,
     <<"4", "x", "l">>, <<"n", "o", "n", "e">>, <<"a", "u", "t", "o">>,
     <<"p", "x">>}

BorderKeywords ==
    {<<"b", "o", "r", "d", "e", "r">>, <<"s", "t", "r", "o", "k", "e">>,
     <<"o", "u", "t", "l", "i", "n", "e">>, <<"d", "i", "v", "i", "d", "e", "r">>,
     <<"w", "i", "d", "t", "h">>, <<"r", "a", "d", "i", "u", "s">>,
     <<"s", "t", "y", "l", "e">>}

IsSpacingToken(token) ==
    \E keyword \in SpacingKeywords :
        \/ Includes(ToLowerCase(Join(token.path, "-")), keyword)
        \/ Includes(ToLowerCase(token.name), keyword)

IsBorderToken(token) ==
    \E keyword \in BorderKeywords :
        \/ Includes(ToLowerCase(Join(token.path, "-")), keyword)
        \/ Includes(ToLowerCase(token.name), keyword)

\* the lower-case property names every object inherits from Object.prototype
InheritedKeys == {<<"c", "o", "n", "s", "t", "r", "u", "c", "t", "o", "r">>, <<"_", "_", "p", "r", "o", "t", "o", "_", "_">>}

\* KNOWN_CATEGORIES[name] is truthy: name is one of its keys, or a property the
\* object literal inherits
KnownCategoriesHas(name) ==
    \/ \E i \in 1..Len(KnownCategoryOrder) : KnownCategoryOrder[i] = name
    \/ name \in InheritedKeys

\* a classifier that lets the color type decide before the first path segment
InferTokenCategoryTypeFirst(token) ==
    IF token.type = TypeColor THEN <<"c", "o", "l", "o", "r", "s">> ELSE ToLowerCase(token.path[1])

\* inferTokenCategory
InferTokenCategory(token) ==
    LET primaryCategory == ToLowerCase(token.path[1])
    IN IF KnownCategoriesHas(primaryCategory)
       THEN primaryCategory
       ELSE IF token.type = <<>> THEN primaryCategory
       ELSE CASE token.type = TypeColor -> <<"c", "o", "l", "o", "r", "s">>
              [] token.type \in {TypeFontFamily, TypeFontWeight, TypeTypography} -> <<"t", "y", "p", "o", "g", "r", "a", "p", "h", "y">>
              [] token.type = TypeDimension ->
                    IF IsSpacingToken(token) THEN <<"s", "p", "a", "c", "i", "n", "g">>
                    ELSE IF IsBorderToken(token) THEN <<"b", "o", "r", "d", "e", "r", "s">>
                    ELSE <<"d", "i", "m", "e", "n", "s", "i", "o", "n", "s">>
              [] token.type = TypeBorder -> <<"b", "o", "r", "d", "e", "r", "s">>
              [] token.type = TypeShadow -> <<"s", "h", "a", "d", "o", "w", "s">>
              [] token.type \in {TypeDuration, TypeCubicBezier, TypeTransition} -> <<"a", "n", "i", "m", "a", "t", "i", "o", "n", "s">>
              [] OTHER -> primaryCategory

\* categorizeTokens, first loop: the tokens of each inferred category, in Map order
RECURSIVE CategoryMap(_, _)
CategoryMap(toks, categoryMap) ==
    IF Len(toks) = 0 THEN categoryMap
    ELSE LET categoryName == InferTokenCategory(toks[1])
         IN CategoryMap(Tail(toks),
                MapSet(categoryMap, categoryName,
                       Append(IF MapHas(categoryMap, categoryName)
                              THEN MapGet(categoryMap, categoryName) ELSE <<>>, toks[1])))

\* one TokenCategory
TokenCategory(name, toks) == [name |-> name, tokens |-> toks, totalCount |-> Len(toks)]

\* keys.sort(): insertion by code-unit order
RECURSIVE SortKeys(_)
SortKeys(keys) ==
    IF keys = {} THEN <<>>
    ELSE LET least == CHOOSE k \in keys : \A other \in keys \ {k} : CodeLess(k, other)
         IN <<least>> \o SortKeys(keys \ {least})

\* a categorizeTokens that lists every category in the order of its name
CategorizeTokensByName(toks) ==
    LET categoryMap == CategoryMap(toks, <<>>)
        order == SortKeys({categoryMap[i].key : i \in 1..Len(categoryMap)})
    IN [i \in 1..Len(order) |->
           TokenCategory(order[i], SortByName(MapGet(categoryMap, order[i])))]

\* categorizeTokens: known categories in their preferred order, then the others
\* alphabetically; each category's tokens sorted by name
CategorizeTokens(toks) ==
    LET categoryMap == CategoryMap(toks, <<>>)
        known == SelectSeq(KnownCategoryOrder, LAMBDA name : MapHas(categoryMap, name))
        remaining == SortKeys({categoryMap[i].key : i \in 1..Len(categoryMap)}
                              \ {KnownCategoryOrder[i] : i \in 1..Len(KnownCategoryOrder)})
        order == known \o remaining
    IN [i \in 1..Len(order) |->
           TokenCategory(order[i], SortByName(MapGet(categoryMap, order[i])))]

\* getResults
GetResults(parser) ==
    [categories |-> SortByName([i \in 1..Len(parser.categories) |->
                        TokenCategory(parser.categories[i].key, parser.categories[i].val)]),
     allTokens |-> SortByName([i \in 1..Len(parser.tokens) |-> parser.tokens[i].val]),
     fileCount |-> 0,
     errors |-> parser.errors]

\* an entry of errors: the file it names, the kind of failure, and for a schema
\* failure the issues its message lists
ParseError(file, kind, issues) == [file |-> file, kind |-> kind, issues |-> issues]

\* a parseTokenFile that flattens whatever it can of a document that fails validation
ParseTokenFileLenient(parser, file, filePath) ==
    IF file.kind = "syntax"
    THEN [parser EXCEPT !.errors = Append(@, ParseError(filePath, "Invalid JSON format", <<>>))]
    ELSE LET validated == ValidateDesignTokensFile(file.data)
             st == IF IsObject(file.data)
                   THEN ExtractTokensFromGroup(file.data, <<>>, 1,
                           [tokens |-> parser.tokens, categories |-> parser.categories])
                   ELSE [tokens |-> parser.tokens, categories |-> parser.categories]
         IN IF validated.ok
            THEN [parser EXCEPT !.tokens = st.tokens, !.categories = st.categories]
            ELSE [parser EXCEPT !.tokens = st.tokens, !.categories = st.categories,
                                !.errors = Append(@, ParseError(filePath,
                                    "Invalid W3C Design Token file", validated.issues))]

\* parseTokenFile: JSON.parse, validateDesignTokensFile, extractTokensFromGroup; the
\* catch block turns the first exception into one entry of errors
ParseTokenFile(parser, file, filePath) ==
    IF file.kind = "syntax"
    THEN [parser EXCEPT !.errors = Append(@, ParseError(filePath, "Invalid JSON format", <<>>))]
    ELSE LET validated == ValidateDesignTokensFile(file.data)
         IN IF ~validated.ok
            THEN [parser EXCEPT !.errors = Append(@, ParseError(filePath,
                                    "Invalid W3C Design Token file", validated.issues))]
            ELSE LET st == ExtractTokensFromGroup(validated.data, <<>>, 1,
                               [tokens |-> parser.tokens, categories |-> parser.categories])
                 IN [parser EXCEPT !.tokens = st.tokens, !.categories = st.categories]

\* the parser's three fields as they stand
Parser == [tokens |-> parserTokens, categories |-> categories, errors |-> errors]

\* a new TokenFileParser()
NewParser == [tokens |-> <<>>, categories |-> <<>>, errors |-> <<>>]

\* the for loop of parseMultipleTokenFiles over batch, from file i on
RECURSIVE ParseFiles(_, _, _)
ParseFiles(parser, batch, i) ==
    IF i > Len(batch) THEN parser
    ELSE ParseFiles(ParseTokenFile(parser, batch[i], i), batch, i + 1)

\* parseMultipleTokenFiles, after its loop
MultipleResults(parser, fileCount) ==
    LET results == GetResults(parser)
    IN [results EXCEPT !.fileCount = fileCount,
                       !.categories = CategorizeTokens(results.allTokens)]

-----------------------------------------------------------------------------
(* The documents the parser is run on *)

\* most files in one batch
MaxFiles == 2

KeyA == <<"a">>
KeyB == <<"b">>
KeyAB == <<"a", "-", "b">>
KeyMeta == <<"$", "x">>

TypeTag(type) == KV(KeyType, StrV(type))
Value(v) == KV(KeyValue, v)

\* tokens the grammar accepts
ColorHex == ObjV(<<TypeTag(TypeColor), Value(StrV(<<"#", "f", "f", "f">>))>>)
ColorAlias ==
    ObjV(<<TypeTag(TypeColor), Value(AliasV(KeyA)), KV(KeyDescription, StrV(<<"d">>))>>)
UntypedText == ObjV(<<Value(StrV(<<"x">>))>>)
\* an alias token with a member of its own, which TokenReferenceSchema drops
AliasWithMember == ObjV(<<Value(AliasV(KeyB)), KV(KeyB, ObjV(<<TypeTag(TypeColor)>>))>>)

\* nodes that carry $type or $value and that no alternative of the grammar accepts
NoValue == ObjV(<<TypeTag(TypeColor)>>)
BadColor == ObjV(<<TypeTag(TypeColor), Value(StrV(<<"b", "a", "d">>))>>)
ColorNumber == ObjV(<<TypeTag(TypeColor), Value(NumV(5))>>)
ColorObject == ObjV(<<TypeTag(TypeColor), Value(ObjV(<<>>))>>)
ColorArray == ObjV(<<TypeTag(TypeColor), Value(ArrV(<<StrV(<<"#", "f", "f", "f">>)>>))>>)
UntypedArray == ObjV(<<Value(ArrV(<<StrV(<<"x">>)>>))>>)
TypedGroup == ObjV(<<TypeTag(TypeColor), KV(KeyB, UntypedText)>>)

\* typed tokens of the shapes the schemas tell apart
TypographyMinimal ==
    ObjV(<<TypeTag(TypeTypography),
           Value(ObjV(<<KV(<<"f", "o", "n", "t", "F", "a", "m", "i", "l", "y">>, StrV(<<"f">>)), KV(<<"f", "o", "n", "t", "S", "i", "z", "e">>, StrV(<<"s">>))>>))>>)
TypographyFull ==
    ObjV(<<TypeTag(TypeTypography),
           Value(ObjV(<<KV(<<"f", "o", "n", "t", "F", "a", "m", "i", "l", "y">>, StrV(<<"f">>)), KV(<<"f", "o", "n", "t", "S", "i", "z", "e">>, StrV(<<"s">>)),
                        KV(<<"f", "o", "n", "t", "W", "e", "i", "g", "h", "t">>, NumV(600))>>))>>)
TypographyWeightOnly ==
    ObjV(<<TypeTag(TypeTypography), Value(ObjV(<<KV(<<"f", "o", "n", "t", "W", "e", "i", "g", "h", "t">>, NumV(600))>>))>>)
NumberNumeric == ObjV(<<TypeTag(TypeNumber), Value(NumV(5))>>)
NumberText == ObjV(<<TypeTag(TypeNumber), Value(StrV(<<"b", "o", "l", "d">>))>>)
NumberAlias == ObjV(<<TypeTag(TypeNumber), Value(AliasV(KeyA))>>)
FontWeightNumeric == ObjV(<<TypeTag(TypeFontWeight), Value(NumV(5))>>)
FontWeightText == ObjV(<<TypeTag(TypeFontWeight), Value(StrV(<<"b", "o", "l", "d">>))>>)

ShapeNodes == {TypographyMinimal, TypographyFull, TypographyWeightOnly, NumberNumeric,
               NumberText, NumberAlias, FontWeightNumeric, FontWeightText}

GoodNodes == {ColorHex, ColorAlias, UntypedText, AliasWithMember}
BadNodes == {NoValue, BadColor, ColorNumber, ColorObject, ColorArray, UntypedArray, TypedGroup}

\* a document with the node at depth 1, 2 or 3
Nest(depth, node) ==
    IF depth = 1 THEN ObjV(<<KV(KeyA, node)>>)
    ELSE IF depth = 2 THEN ObjV(<<KV(KeyA, ObjV(<<KV(KeyB, node)>>))>>)
    ELSE ObjV(<<KV(KeyA, ObjV(<<KV(KeyB, ObjV(<<KV(KeyA, node)>>))>>))>>)

Documents ==
    {Nest(depth, node) : depth \in 1..3, node \in GoodNodes \cup BadNodes}
    \cup {Nest(1, node) : node \in ShapeNodes}
    \cup { ObjV(<<KV(KeyA, ObjV(<<KV(KeyB, ColorHex)>>)), KV(KeyAB, UntypedText)>>),
           ObjV(<<KV(KeyAB, UntypedText), KV(KeyA, ObjV(<<KV(KeyB, ColorHex)>>))>>),
           ObjV(<<KV(KeyAB, UntypedText)>>),
           ObjV(<<KV(KeyA, ColorHex), KV(KeyB, NoValue)>>),
           ObjV(<<KV(KeyA, ObjV(<<>>))>>),
           ObjV(<<KV(KeyA, ColorHex), KV(KeyB, ObjV(<<KV(KeyA, ObjV(<<>>))>>))>>),
           ObjV(<<KV(KeyA, UntypedText), KV(KeyB, ObjV(<<KV(KeyA, ColorArray)>>))>>),
           ObjV(<<KV(KeyA, ObjV(<<KV(KeyDescription, StrV(<<"d">>)), KV(KeyB, ColorHex)>>))>>),
           ObjV(<<KV(KeyMeta, UntypedText), KV(KeyA, ColorHex)>>),
           ArrV(<<>>) }

\* a file: text that JSON.parse rejects, or the document it parses to
Files == {[kind |-> "syntax", data |-> Undefined]}
            \cup {[kind |-> "json", data |-> doc] : doc \in Documents}

FileBatches == UNION {[1..n -> Files] : n \in 1..MaxFiles}

-----------------------------------------------------------------------------
(* parseMultipleTokenFiles as a machine: one step per file, one for the results *)

InitParser ==
    /\ files \in FileBatches
    /\ fileIdx = 1
    /\ parserTokens = <<>> /\ categories = <<>> /\ errors = <<>>
    /\ result = NoResult /\ report = NoReport /\ catalog = NoCatalog /\ tool = NoTool /\ earlier = NoEarlier
    /\ tokens = <<>> /\ tokenMap = <<>> /\ resolvedTokens = <<>> /\ resolutionStack = <<>>
    /\ frames = <<>> /\ ctl = Idle /\ top = "idle" /\ allIdx = 0
    /\ calls = 0 /\ outcome = NoOutcome /\ computed = <<>> /\ steps = 0

\* the parser after parseTokenFile(files[fileIdx])
ParseNext ==
    /\ parserTokens' = ParseTokenFile(Parser, files[fileIdx], fileIdx).tokens
    /\ categories' = ParseTokenFile(Parser, files[fileIdx], fileIdx).categories
    /\ errors' = ParseTokenFile(Parser, files[fileIdx], fileIdx).errors
    /\ fileIdx' = fileIdx + 1
    /\ UNCHANGED <<files, result, report, catalog, tool, earlier, rvars>>

\* parseTokenFile: JSON.parse throws a SyntaxError
ParseFileSyntaxError ==
    /\ fileIdx <= Len(files)
    /\ files[fileIdx].kind = "syntax"
    /\ ParseNext

\* parseTokenFile: validateDesignTokensFile throws
ParseFileInvalid ==
    /\ fileIdx <= Len(files)
    /\ files[fileIdx].kind = "json"
    /\ ~ValidateDesignTokensFile(files[fileIdx].data).ok
    /\ ParseNext

\* parseTokenFile: the document is valid and its tokens are extracted
ParseFileValid ==
    /\ fileIdx <= Len(files)
    /\ files[fileIdx].kind = "json"
    /\ ValidateDesignTokensFile(files[fileIdx].data).ok
    /\ ParseNext

\* parseMultipleTokenFiles: getResults, fileCount, categorizeTokens
ReturnResults ==
    /\ fileIdx > Len(files)
    /\ ~result.done
    /\ result' = [done |-> TRUE, value |-> MultipleResults(Parser, Len(files))]
    /\ UNCHANGED <<files, fileIdx, parserTokens, categories, errors, report, catalog, tool, earlier, rvars>>

NextParser == ParseFileSyntaxError \/ ParseFileInvalid \/ ParseFileValid \/ ReturnResults

SpecParser == InitParser /\ [][NextParser]_vars

-----------------------------------------------------------------------------
(* Merging the documents of a batch *)

\* the lists of a categories map, one after the other
RECURSIVE ConcatTokens(_)
ConcatTokens(categoryMap) ==
    IF Len(categoryMap) = 0 THEN <<>>
    ELSE categoryMap[1].val \o ConcatTokens(Tail(categoryMap))

\* the document of the file passes JSON.parse and validateDesignTokensFile
ValidFile(file) == file.kind = "json" /\ ValidateDesignTokensFile(file.data).ok

\* every token a valid document declares, as parseTokenFile pushes them
DeclaredTokens(file) ==
    IF ValidFile(file) THEN ConcatTokens(ParseTokenFile(NewParser, file, 1).categories)
    ELSE <<>>

DeclaresPath(file, path) ==
    \E n \in 1..Len(DeclaredTokens(file)) : DeclaredTokens(file)[n].path = path

\* the token a document declares at the path
TokenAtPath(file, path) ==
    DeclaredTokens(file)[CHOOSE n \in 1..Len(DeclaredTokens(file)) :
                            DeclaredTokens(file)[n].path = path]

\* the last file of the batch that declares the path
LastDeclaring(path) ==
    CHOOSE j \in 1..Len(files) :
        /\ DeclaresPath(files[j], path)
        /\ \A later \in (j + 1)..Len(files) : ~DeclaresPath(files[later], path)

\* how many tokens of the name the returned categories hold
RECURSIVE CountNamed(_, _)
CountNamed(categoryList, name) ==
    IF Len(categoryList) = 0 THEN 0
    ELSE Cardinality({k \in 1..Len(categoryList[1].tokens) :
                        categoryList[1].tokens[k].name = name})
         + CountNamed(Tail(categoryList), name)

\* the merged result holds exactly one token of the declared token's name, with the
\* value, type and description the last document declaring that path gives it
MergedFromLast(declared) ==
    LET winner == TokenAtPath(files[LastDeclaring(declared.path)], declared.path)
        named == {k \in 1..Len(result.value.allTokens) :
                    result.value.allTokens[k].name = declared.name}
    IN /\ Cardinality(named) = 1
       /\ \A k \in named :
            /\ result.value.allTokens[k].value = winner.value
            /\ result.value.allTokens[k].type = winner.type
            /\ result.value.allTokens[k].description = winner.description
       /\ CountNamed(result.value.categories, declared.name) = 1

(* C8: when the documents of a batch declare a token at the same full path, the merged
   result (allTokens and the categories derived from it) holds exactly one token of
   that name, with the value, type and description of the last document declaring the
   path; a token at a path no later document declares is kept as its document gave it *)
C8_LastDocumentWins ==
    (result.done /\ Len(files) > 1) =>
        \A i \in 1..Len(files) : \A n \in 1..Len(DeclaredTokens(files[i])) :
            MergedFromLast(DeclaredTokens(files[i])[n])

-----------------------------------------------------------------------------
(* A failing document in a batch *)

\* parseTokenFile on a file that JSON.parse or validateDesignTokensFile rejects
\* leaves the parser's tokens and categories alone and adds one entry to errors
C9_FailingStep ==
    (fileIdx <= Len(files) /\ ~ValidFile(files[fileIdx]) /\ fileIdx' = fileIdx + 1) =>
        /\ parserTokens' = parserTokens
        /\ categories' = categories
        /\ Len(errors') = Len(errors) + 1
        /\ SubSeq(errors', 1, Len(errors)) = errors
        /\ errors'[Len(errors')].file = fileIdx

\* the results are those of the batch without its failing files, but for errors and
\* fileCount; errors has one entry for each failing file
C9_AsIfAbsent ==
    result.done =>
        LET kept == SelectSeq(files, ValidFile)
            without == MultipleResults(ParseFiles(NewParser, kept, 1), Len(kept))
        IN /\ result.value.allTokens = without.allTokens
           /\ result.value.categories = without.categories
           /\ Len(result.value.errors) = Len(files) - Len(kept)
           /\ \A i \in 1..Len(files) :
                ValidFile(files[i])
                    <=> \A e \in 1..Len(result.value.errors) : result.value.errors[e].file # i

(* C9: a document of a batch that is unparseable or fails schema validation
   contributes no tokens, not even its valid ones, and adds exactly one entry to
   errors; what the other documents contribute is what they contribute when the
   failing document is absent *)
C9_FailingDocumentVoid == [][C9_FailingStep]_vars /\ []C9_AsIfAbsent

\* a batch whose first document has a valid token beside an invalid node and whose
\* second document is valid has been parsed: one error, and tokens from the second
C9_Witness ==
    /\ result.done
    /\ Len(files) = 2
    /\ files[1] = [kind |-> "json", data |-> ObjV(<<KV(KeyA, ColorHex), KV(KeyB, NoValue)>>)]
    /\ ValidFile(files[2])
    /\ Len(result.value.allTokens) > 0
    /\ Len(result.value.errors) = 1

-----------------------------------------------------------------------------
(* Nodes that look like tokens and are none *)

LooksLikeToken(node) == HasKey(node, KeyType) \/ HasKey(node, KeyValue)

\* the key paths, from the node down through its groups, of the objects that carry
\* $type or $value and that no alternative of TokenSchema accepts
RECURSIVE OffendingPaths(_, _)
OffendingPaths(node, path) ==
    IF ~IsObject(node) THEN {}
    ELSE IF LooksLikeToken(node)
    THEN IF TokenSchema(node, path).status # "valid" THEN {path} ELSE {}
    ELSE UNION {OffendingPaths(node.kids[i].v, Append(path, node.kids[i].k)) :
                    i \in {k \in 1..Len(node.kids) : ~IsMetaKey(node.kids[k].k)}}

\* the entries of errors for the file
ErrorsOf(file) == SelectSeq(errors, LAMBDA e : e.file = file)

\* an entry of errors locates the node: one of its issues is at the node's key path,
\* or at the node's $type or $value
Locates(error, path) ==
    \E n \in 1..Len(error.issues) :
        error.issues[n].path \in {Join(path, "."),
                                  Join(Append(path, KeyType), "."),
                                  Join(Append(path, KeyValue), ".")}

\* a document holding such a node has been rejected: it has its entry in errors
Rejected(file) == Len(ErrorsOf(file)) = 1

(* C10: a document in which a node at any depth carries $type or $value and matches
   none of the alternatives of the token grammar is rejected, the node is not taken
   as a group, and the diagnostic carries the key path to that node *)
C10_OffendingNodeLocated ==
    \A i \in 1..(fileIdx - 1) :
        files[i].kind = "json" =>
            \A path \in OffendingPaths(files[i].data, <<>>) :
                /\ Rejected(i)
                /\ Locates(ErrorsOf(i)[1], path)

-----------------------------------------------------------------------------
(* Groups without tokens *)

\* the node is a token or has one beneath it
RECURSIVE ContainsToken(_)
ContainsToken(node) ==
    \/ IsToken(node)
    \/ /\ IsObject(node)
       /\ \E i \in 1..Len(node.kids) :
            ~IsMetaKey(node.kids[i].k) /\ ContainsToken(node.kids[i].v)

\* every non-metadata child of every group from the node down holds a token
RECURSIVE GroupsHoldTokens(_)
GroupsHoldTokens(node) ==
    \/ IsToken(node)
    \/ ~IsObject(node)
    \/ \A i \in 1..Len(node.kids) :
            IsMetaKey(node.kids[i].k)
                \/ (ContainsToken(node.kids[i].v) /\ GroupsHoldTokens(node.kids[i].v))

\* parseTokenFile took the file without recording an error for it
Accepted(file) == files[file].kind = "json" /\ Len(ErrorsOf(file)) = 0

(* C11: in every document validation accepts, every non-metadata child of every
   group holds at least one valid token, possibly after recursion; a document with
   an empty group, or a group with no token beneath it, is rejected *)
C11_GroupsHoldTokens ==
    \A i \in 1..(fileIdx - 1) : Accepted(i) => GroupsHoldTokens(files[i].data)

-----------------------------------------------------------------------------
(* The shapes of typed tokens *)

\* the document has one member and nothing else
SingleMember(data) == IsObject(data) /\ Len(data.kids) = 1 /\ ~IsMetaKey(data.kids[1].k)

\* the node carries the $type
Tagged(node, type) ==
    IsObject(node) /\ HasKey(node, KeyType) /\ Field(node, KeyType) = StrV(type)

\* a typography token with string fontFamily and fontSize and nothing else in $value
IsMinimalTypography(node) ==
    /\ Tagged(node, TypeTypography)
    /\ Len(node.kids) = 2
    /\ HasKey(node, KeyValue)
    /\ IsObject(Field(node, KeyValue))
    /\ Len(Field(node, KeyValue).kids) = 2
    /\ HasKey(Field(node, KeyValue), <<"f", "o", "n", "t", "F", "a", "m", "i", "l", "y">>) /\ IsString(Field(Field(node, KeyValue), <<"f", "o", "n", "t", "F", "a", "m", "i", "l", "y">>))
    /\ HasKey(Field(node, KeyValue), <<"f", "o", "n", "t", "S", "i", "z", "e">>) /\ IsString(Field(Field(node, KeyValue), <<"f", "o", "n", "t", "S", "i", "z", "e">>))

(* C12: a token tagged typography whose value has string fontFamily and fontSize and
   omits fontWeight, letterSpacing and lineHeight is accepted by the grammar: isToken
   is true and validateDesignTokensFile does not reject the document *)
C12_MinimalTypographyAccepted ==
    \A i \in 1..(fileIdx - 1) :
        (files[i].kind = "json" /\ SingleMember(files[i].data)
            /\ IsMinimalTypography(files[i].data.kids[1].v))
        => (IsToken(files[i].data.kids[1].v) /\ Accepted(i))

\* the member of a single-member document that parseTokenFile has been given
MemberOf(i) == files[i].data.kids[1].v

\* $value is a string that is no alias
TextValued(node) ==
    /\ HasKey(node, KeyValue)
    /\ IsString(Field(node, KeyValue))
    /\ ~IsTokenReference(Field(node, KeyValue).s)

NumericValued(node) == HasKey(node, KeyValue) /\ IsNumber(Field(node, KeyValue))

\* a number token is accepted with a numeric value and with a string that is no alias
C13_NumberLikeFontWeight ==
    \A i \in 1..(fileIdx - 1) :
        (files[i].kind = "json" /\ SingleMember(files[i].data)
            /\ Tagged(MemberOf(i), TypeNumber) /\ Len(MemberOf(i).kids) = 2
            /\ (NumericValued(MemberOf(i)) \/ TextValued(MemberOf(i))))
        => (IsToken(MemberOf(i)) /\ Accepted(i))

(* C13: a token tagged number is accepted by the grammar when its value is numeric
   and rejected when its value is a string that is no alias; a token tagged
   fontWeight is accepted with a numeric value and with such a string *)
C13_NumberNumericOnly ==
    \A i \in 1..(fileIdx - 1) :
        (files[i].kind = "json" /\ SingleMember(files[i].data)
            /\ IsObject(MemberOf(i)) /\ Len(MemberOf(i).kids) = 2)
        => /\ (Tagged(MemberOf(i), TypeNumber) /\ NumericValued(MemberOf(i)))
                => (IsToken(MemberOf(i)) /\ Accepted(i))
           /\ (Tagged(MemberOf(i), TypeNumber) /\ TextValued(MemberOf(i)))
                => (~IsToken(MemberOf(i)) /\ Rejected(i))
           /\ (Tagged(MemberOf(i), TypeFontWeight)
                    /\ (NumericValued(MemberOf(i)) \/ TextValued(MemberOf(i))))
                => (IsToken(MemberOf(i)) /\ Accepted(i))

\* a number token with a numeric value has been accepted and one with a text value
\* rejected
C13_Witness ==
    /\ fileIdx = 3
    /\ files[1].data = Nest(1, NumberNumeric)
    /\ files[2].data = Nest(1, NumberText)
    /\ Accepted(1) /\ Rejected(2)
    /\ Len(parserTokens) = 1

-----------------------------------------------------------------------------
(* TokenFileValidator *)

\* a TokenError: its type, the path its message names, tokenPath, tokenName, and
\* what the message says about which property
TokenError(type, tokenPath, tokenName, text, prop) ==
    [type |-> type, at |-> Join(tokenPath, "."), tokenPath |-> tokenPath,
     tokenName |-> tokenName, text |-> text, prop |-> prop]

\* value[prop] === undefined
PropUndefined(value, prop) == ~(IsObject(value) /\ HasKey(value, prop))

\* the key of entry i as Object.keys gives it: an array's keys are its indexes
KeyAt(value, i) ==
    IF IsArray(value) THEN <<(<<"0", "1", "2", "3", "4", "5", "6", "7", "8", "9">>)[i]>>
    ELSE value.kids[i].k

\* a validator that reports the first required property the value lacks and stops
MissingPropsFirstOnly(value, required, tokenPath, tokenName, text) ==
    LET lacking == SelectSeq(required, LAMBDA prop : PropUndefined(value, prop))
    IN IF Len(lacking) = 0 THEN <<>>
       ELSE <<TokenError("MISSING_VALUE", tokenPath, tokenName, text, lacking[1])>>

\* one MISSING_VALUE error for each required property the value lacks
RECURSIVE MissingProps(_, _, _, _, _)
MissingProps(value, required, tokenPath, tokenName, text) ==
    IF Len(required) = 0 THEN <<>>
    ELSE (IF PropUndefined(value, Head(required))
          THEN <<TokenError("MISSING_VALUE", tokenPath, tokenName, text, Head(required))>>
          ELSE <<>>)
         \o MissingProps(value, Tail(required), tokenPath, tokenName, text)

\* one INVALID_TYPE error for each key of the value outside allowed, from key i on
RECURSIVE InvalidProps(_, _, _, _, _, _)
InvalidProps(value, allowed, tokenPath, tokenName, text, i) ==
    IF i > Len(value.kids) THEN <<>>
    ELSE (IF \E k \in 1..Len(allowed) : allowed[k] = KeyAt(value, i) THEN <<>>
          ELSE <<TokenError("INVALID_TYPE", tokenPath, tokenName, text, KeyAt(value, i))>>)
         \o InvalidProps(value, allowed, tokenPath, tokenName, text, i + 1)

\* validateTypographyToken
ValidateTypographyToken(value, path) ==
    MissingProps(value, <<<<"f", "o", "n", "t", "F", "a", "m", "i", "l", "y">>, <<"f", "o", "n", "t", "S", "i", "z", "e">>>>, path, Join(path, "-"),
                 "Typography token missing required property")
    \o InvalidProps(value, <<<<"f", "o", "n", "t", "F", "a", "m", "i", "l", "y">>, <<"f", "o", "n", "t", "S", "i", "z", "e">>, <<"f", "o", "n", "t", "W", "e", "i", "g", "h", "t">>, <<"l", "e", "t", "t", "e", "r", "S", "p", "a", "c", "i", "n", "g">>, <<"l", "i", "n", "e", "H", "e", "i", "g", "h", "t">>>>, path, Join(path, "-"),
                    "Typography token has invalid property", 1)

\* validateBorderToken
ValidateBorderToken(value, path) ==
    MissingProps(value, <<<<"c", "o", "l", "o", "r">>, <<"w", "i", "d", "t", "h">>, <<"s", "t", "y", "l", "e">>>>, path, Join(path, "-"),
                 "Border token missing required property")

\* validateSingleShadow
ValidateSingleShadow(shadow, shadowPath, path) ==
    MissingProps(shadow, <<<<"c", "o", "l", "o", "r">>, <<"o", "f", "f", "s", "e", "t", "X">>, <<"o", "f", "f", "s", "e", "t", "Y">>, <<"b", "l", "u", "r">>>>, shadowPath, Join(path, "-"),
                 "Shadow token missing required property")
    \o InvalidProps(shadow, <<<<"c", "o", "l", "o", "r">>, <<"o", "f", "f", "s", "e", "t", "X">>, <<"o", "f", "f", "s", "e", "t", "Y">>, <<"b", "l", "u", "r">>, <<"s", "p", "r", "e", "a", "d">>>>, shadowPath,
                    Join(path, "-"), "Shadow token has invalid property", 1)

\* `[${index}]` of the item at position i
IndexSegment(i) == <<"[">> \o <<(<<"0", "1", "2", "3", "4", "5", "6", "7", "8", "9">>)[i]>> \o <<"]">>

\* validateShadowToken: every layer of an array, or the one object
RECURSIVE ShadowLayers(_, _, _)
ShadowLayers(value, path, i) ==
    IF i > Len(value.kids) THEN <<>>
    ELSE (IF IsObject(value.kids[i].v) \/ IsArray(value.kids[i].v)
          THEN ValidateSingleShadow(value.kids[i].v, Append(path, IndexSegment(i)), path)
          ELSE <<>>)
         \o ShadowLayers(value, path, i + 1)
ValidateShadowToken(value, path) ==
    IF IsArray(value) THEN ShadowLayers(value, path, 1)
    ELSE IF IsObject(value) THEN ValidateSingleShadow(value, path, path)
    ELSE <<>>

\* the type-specific validator for a node whose $value is an object or an array
TypeSpecific(node, path) ==
    IF ~(HasKey(node, KeyType) /\ HasKey(node, KeyValue)
         /\ (IsObject(Field(node, KeyValue)) \/ IsArray(Field(node, KeyValue))))
    THEN <<>>
    ELSE (IF Field(node, KeyType) = StrV(TypeTypography)
          THEN ValidateTypographyToken(Field(node, KeyValue), path) ELSE <<>>)
         \o (IF Field(node, KeyType) = StrV(TypeBorder)
             THEN ValidateBorderToken(Field(node, KeyValue), path) ELSE <<>>)
         \o (IF Field(node, KeyType) = StrV(TypeShadow)
             THEN ValidateShadowToken(Field(node, KeyValue), path) ELSE <<>>)

\* validateToken: a node isToken accepts has its $value, and its aliases are well
\* formed, so only the type-specific validators can add errors
ValidateToken(token, path) ==
    (IF ~HasKey(token, KeyValue)
     THEN <<TokenError("MISSING_VALUE", path, Join(path, "-"),
                       "Token missing required property", KeyValue)>>
     ELSE <<>>)
    \o TypeSpecific(token, path)

\* 'a.b'.split('.'), and [] for the empty path
RECURSIVE Split(_, _, _)
Split(s, sep, current) ==
    IF Len(s) = 0 THEN <<current>>
    ELSE IF Head(s) = sep THEN <<current>> \o Split(Tail(s), sep, <<>>)
    ELSE Split(Tail(s), sep, Append(current, Head(s)))
PathParts(path) == IF Len(path) = 0 THEN <<>> ELSE Split(path, ".", <<>>)

\* categorizeValidationError: the type it gives a schema message; none of the
\* messages holds both 'required' and '$value' or '$type'
CategorizeValidationError(message) ==
    IF message \in {"Expected object", "Expected string", "Invalid enum value"}
    THEN "INVALID_TYPE"
    ELSE "SCHEMA_VALIDATION"

\* parseZodValidationError: one error for each 'path: message' line of the Error
ParseZodValidationError(issues) ==
    [i \in 1..Len(issues) |->
        [type |-> CategorizeValidationError(issues[i].message),
         at |-> issues[i].path,
         tokenPath |-> PathParts(issues[i].path),
         tokenName |-> Join(PathParts(issues[i].path), "-"),
         text |-> issues[i].message,
         prop |-> <<>>]]

\* what validateTokenSemantics adds for a member that is an object and no token
LooksLikeTokenErrors(value, currentPath) ==
    (IF HasKey(value, KeyType) /\ ~HasKey(value, KeyValue)
     THEN <<TokenError("MISSING_VALUE", currentPath, Join(currentPath, "-"),
                       "Token missing required property", KeyValue)>>
     ELSE <<>>)
    \o (IF HasKey(value, KeyValue) /\ ~HasKey(value, KeyType)
        THEN <<TokenError("MISSING_TYPE", currentPath, Join(currentPath, "-"),
                          "Token missing required property", KeyType)>>
        ELSE <<>>)
    \o TypeSpecific(value, currentPath)

\* validateTokenSemantics, from entry i of the group on
RECURSIVE ValidateTokenSemantics(_, _, _)
ValidateTokenSemantics(group, path, i) ==
    IF ~(IsObject(group) \/ IsArray(group)) THEN <<>>
    ELSE IF i > Len(group.kids) THEN <<>>
    ELSE LET key == KeyAt(group, i)
             value == group.kids[i].v
             currentPath == Append(path, key)
         IN (IF IsMetaKey(key) THEN <<>>
             ELSE IF IsToken(value) THEN ValidateToken(value, currentPath)
             ELSE IF IsObject(value) \/ IsArray(value)
             THEN LooksLikeTokenErrors(value, currentPath)
                  \o ValidateTokenSemantics(value, currentPath, 1)
             ELSE <<TokenError("SCHEMA_VALIDATION", currentPath, <<>>,
                               "Invalid token or group structure", <<>>)>>)
            \o ValidateTokenSemantics(group, path, i + 1)

\* shallowCheck: the members of the root once more, from entry i on
RECURSIVE ShallowCheck(_, _)
ShallowCheck(node, i) ==
    IF ~(IsObject(node) \/ IsArray(node)) THEN <<>>
    ELSE IF i > Len(node.kids) THEN <<>>
    ELSE LET k == KeyAt(node, i)
             v == node.kids[i].v
         IN (IF IsMetaKey(k) \/ ~(IsObject(v) \/ IsArray(v)) THEN <<>>
             ELSE (IF HasKey(v, KeyType) /\ ~HasKey(v, KeyValue)
                   THEN <<TokenError("MISSING_VALUE", <<k>>, k,
                                     "Token missing required property", KeyValue)>>
                   ELSE <<>>)
                  \o TypeSpecific(v, <<k>>))
            \o ShallowCheck(node, i + 1)

\* the errors validateTokenFile returns for a document the schema rejects, given
\* the issues validateDesignTokensFile threw
RejectedReport(data, validated) ==
    ParseZodValidationError(validated.issues) \o ValidateTokenSemantics(data, <<>>, 1)

\* validateTokenFile on the content of a file
ValidateTokenFile(file) ==
    IF file.kind = "syntax"
    THEN <<TokenError("INVALID_JSON", <<>>, <<>>, "Invalid JSON", <<>>)>>
    ELSE IF ~ValidFile(file)
    THEN RejectedReport(file.data, ValidateDesignTokensFile(file.data))
    ELSE ValidateTokenSemantics(file.data, <<>>, 1) \o ShallowCheck(file.data, 1)

-----------------------------------------------------------------------------
(* validateTokenFile as a machine: one call on one file *)

Layer(c, x, y, b) == ObjV(<<KV(<<"c", "o", "l", "o", "r">>, StrV(c)), KV(<<"o", "f", "f", "s", "e", "t", "X">>, StrV(x)), KV(<<"o", "f", "f", "s", "e", "t", "Y">>, StrV(y)), KV(<<"b", "l", "u", "r">>, StrV(b))>>)

\* composite tokens, complete and lacking required fields
BorderComplete ==
    ObjV(<<TypeTag(TypeBorder),
           Value(ObjV(<<KV(<<"c", "o", "l", "o", "r">>, StrV(<<"c">>)), KV(<<"w", "i", "d", "t", "h">>, StrV(<<"w">>)),
                        KV(<<"s", "t", "y", "l", "e">>, StrV(<<"s">>))>>))>>)
BorderColorOnly == ObjV(<<TypeTag(TypeBorder), Value(ObjV(<<KV(<<"c", "o", "l", "o", "r">>, StrV(<<"c">>))>>))>>)
ShadowComplete ==
    ObjV(<<TypeTag(TypeShadow), Value(Layer(<<"c">>, <<"x">>, <<"y">>, <<"b">>))>>)
ShadowNoBlur ==
    ObjV(<<TypeTag(TypeShadow),
           Value(ObjV(<<KV(<<"c", "o", "l", "o", "r">>, StrV(<<"c">>)), KV(<<"o", "f", "f", "s", "e", "t", "X">>, StrV(<<"x">>)),
                        KV(<<"o", "f", "f", "s", "e", "t", "Y">>, StrV(<<"y">>))>>))>>)
ShadowLayersNoBlur ==
    ObjV(<<TypeTag(TypeShadow),
           Value(ArrV(<<Layer(<<"c">>, <<"x">>, <<"y">>, <<"b">>),
                        ObjV(<<KV(<<"c", "o", "l", "o", "r">>, StrV(<<"c">>)), KV(<<"o", "f", "f", "s", "e", "t", "X">>, StrV(<<"x">>)),
                               KV(<<"o", "f", "f", "s", "e", "t", "Y">>, StrV(<<"y">>))>>)>>))>>)
TypographyExtra ==
    ObjV(<<TypeTag(TypeTypography),
           Value(ObjV(<<KV(<<"f", "o", "n", "t", "F", "a", "m", "i", "l", "y">>, StrV(<<"f">>)), KV(<<"f", "o", "n", "t", "S", "i", "z", "e">>, StrV(<<"s">>)),
                        KV(<<"f", "o", "n", "t", "W", "e", "i", "g", "h", "t">>, NumV(600)), KV(KeyB, StrV(<<"x">>))>>))>>)

CompositeNodes == {BorderComplete, BorderColorOnly, ShadowComplete, ShadowNoBlur,
                   ShadowLayersNoBlur, TypographyExtra, TypographyWeightOnly,
                   TypographyMinimal, TypographyFull}

\* the files validateTokenFile is run on
ValidatorFiles ==
    Files \cup {[kind |-> "json", data |-> Nest(depth, node)] :
                    depth \in 1..2, node \in CompositeNodes}
          \cup {[kind |-> "json", data |-> ObjV(<<KV(KeyA, StrV(<<"x">>))>>)]}

InitValidator ==
    /\ files \in [1..1 -> ValidatorFiles]
    /\ fileIdx = 1
    /\ parserTokens = <<>> /\ categories = <<>> /\ errors = <<>>
    /\ result = NoResult /\ report = NoReport /\ catalog = NoCatalog /\ tool = NoTool /\ earlier = NoEarlier
    /\ tokens = <<>> /\ tokenMap = <<>> /\ resolvedTokens = <<>> /\ resolutionStack = <<>>
    /\ frames = <<>> /\ ctl = Idle /\ top = "idle" /\ allIdx = 0
    /\ calls = 0 /\ outcome = NoOutcome /\ computed = <<>> /\ steps = 0

\* validateTokenFile returns this.errors
Report(found) ==
    /\ report' = [done |-> TRUE, errors |-> found]
    /\ UNCHANGED <<files, fileIdx, parserTokens, categories, errors, result, catalog, tool, earlier, rvars>>

\* validateTokenFile: JSON.parse throws
ValidateSyntaxError ==
    /\ ~report.done
    /\ files[1].kind = "syntax"
    /\ Report(ValidateTokenFile(files[1]))

\* validateTokenFile: validateDesignTokensFile throws
ValidateRejected ==
    /\ ~report.done
    /\ files[1].kind = "json" /\ ~ValidFile(files[1])
    /\ Report(ValidateTokenFile(files[1]))

\* validateTokenFile: the schema accepts the document
ValidateAccepted ==
    /\ ~report.done
    /\ ValidFile(files[1])
    /\ Report(ValidateTokenFile(files[1]))

NextValidator == ValidateSyntaxError \/ ValidateRejected \/ ValidateAccepted

SpecValidator == InitValidator /\ [][NextValidator]_vars

-----------------------------------------------------------------------------
(* Composite tokens that lack required fields *)

\* the fields the spec requires of a composite of the type
RequiredFields(type) ==
    IF type = TypeTypography THEN {<<"f", "o", "n", "t", "F", "a", "m", "i", "l", "y">>, <<"f", "o", "n", "t", "S", "i", "z", "e">>}
    ELSE IF type = TypeBorder THEN {<<"c", "o", "l", "o", "r">>, <<"w", "i", "d", "t", "h">>, <<"s", "t", "y", "l", "e">>}
    ELSE {<<"c", "o", "l", "o", "r">>, <<"o", "f", "f", "s", "e", "t", "X">>, <<"o", "f", "f", "s", "e", "t", "Y">>, <<"b", "l", "u", "r">>}

\* the node is tagged typography, border or shadow and its $value is an object or a
\* sequence
IsTypedComposite(node) ==
    /\ IsObject(node)
    /\ HasKey(node, KeyType)
    /\ Field(node, KeyType) \in {StrV(TypeTypography), StrV(TypeBorder), StrV(TypeShadow)}
    /\ HasKey(node, KeyValue)
    /\ IsObject(Field(node, KeyValue)) \/ IsArray(Field(node, KeyValue))

\* the composites of a typed composite token: its value, or the layers of a shadow
\* sequence, each with the path the validator reports it at
Composites(node, path) ==
    IF Field(node, KeyType) = StrV(TypeShadow) /\ IsArray(Field(node, KeyValue))
    THEN {[value |-> Field(node, KeyValue).kids[i].v, at |-> Append(path, IndexSegment(i))] :
            i \in {k \in 1..Len(Field(node, KeyValue).kids) :
                        IsObject(Field(node, KeyValue).kids[k].v)}}
    ELSE {[value |-> Field(node, KeyValue), at |-> path]}

\* every missing required field of the typed composite tokens from the node down:
\* the token's path, the path of the composite that lacks it, and the field
RECURSIVE MissingFields(_, _)
MissingFields(node, path) ==
    IF ~IsObject(node) THEN {}
    ELSE IF IsTypedComposite(node)
    THEN {m \in {[token |-> path, at |-> c.at, prop |-> prop, value |-> c.value] :
                    c \in Composites(node, path),
                    prop \in RequiredFields(Field(node, KeyType).s)} :
            ~HasKey(m.value, m.prop)}
    ELSE IF IsToken(node) THEN {}
    ELSE UNION {MissingFields(node.kids[i].v, Append(path, node.kids[i].k)) :
                    i \in {k \in 1..Len(node.kids) : ~IsMetaKey(node.kids[k].k)}}

\* the MISSING_VALUE errors of the report that name the field and carry the path
Diagnostics(prop, tokenPath) ==
    {e \in 1..Len(report.errors) :
        /\ report.errors[e].type = "MISSING_VALUE"
        /\ report.errors[e].prop = prop
        /\ report.errors[e].tokenPath = tokenPath
        /\ report.errors[e].at = Join(tokenPath, ".")}

\* every missing required field has one MISSING_VALUE diagnostic that names it and
\* carries the token's own path
C14_MissingFieldsAtTokenPath ==
    (report.done /\ files[1].kind = "json") =>
        \A m \in MissingFields(files[1].data, <<>>) :
            Cardinality(Diagnostics(m.prop, m.token)) = 1

(* C14: validating a document with a typed composite token (typography, border,
   shadow) that lacks required fields fails, with one MISSING_VALUE diagnostic for
   each missing required field, naming the field and the token; the diagnostic
   carries the exact path of the token, followed by the layer's index when the field
   is missing from a layer of a shadow sequence; a typography token missing both
   fontFamily and fontSize gets two *)
C14_MissingFieldsReported ==
    (report.done /\ files[1].kind = "json") =>
        \A m \in MissingFields(files[1].data, <<>>) :
            /\ Cardinality(Diagnostics(m.prop, m.at)) = 1
            /\ \A e \in Diagnostics(m.prop, m.at) :
                    report.errors[e].tokenName = Join(m.token, "-")

\* a typography token two groups down that has fontWeight only has been validated:
\* two MISSING_VALUE diagnostics at its path
C14_Witness ==
    /\ report.done
    /\ files[1].data = Nest(2, TypographyWeightOnly)
    /\ Cardinality({e \in 1..Len(report.errors) :
                        /\ report.errors[e].type = "MISSING_VALUE"
                        /\ report.errors[e].tokenPath = <<KeyA, KeyB>>}) = 2

-----------------------------------------------------------------------------
(* inferTokenCategory and categorizeTokens on flattened tokens *)

\* most tokens in a list given to categorizeTokens
MaxCatalog == 3

\* a flattened token two segments deep
CatalogToken(first, second, type) ==
    [name |-> Join(<<first, second>>, "-"), path |-> <<first, second>>,
     value |-> StrV(<<"v">>), type |-> type,
     description |-> Undefined, extensions |-> Undefined]

FirstSegments == {<<"B", "r", "a", "n", "d">>, <<"c", "o", "l", "o", "r", "s">>, <<"S", "p", "a", "c", "i", "n", "g">>, <<"t", "y", "p", "o", "g", "r", "a", "p", "h", "y">>, <<"b", "o", "r", "d", "e", "r", "s">>, <<"s", "h", "a", "d", "o", "w", "s">>, <<"a", "n", "i", "m", "a", "t", "i", "o", "n", "s">>, <<"c", "o", "m", "p", "o", "n", "e", "n", "t", "s">>, <<"b", "r", "a", "n", "d">>, <<"a", "l", "p", "h", "a">>, <<"z", "e", "t", "a">>, <<"c", "o", "n", "s", "t", "r", "u", "c", "t", "o", "r">>}

SecondSegments == {<<"x">>, <<"g", "a", "p">>, <<"r", "a", "d", "i", "u", "s">>}

\* every first segment with every type, and with none
AllCatalogTokens ==
    {CatalogToken(first, second, type) :
        first \in FirstSegments, second \in SecondSegments,
        type \in TokenTypeSchema \cup {<<>>}}

\* a few tokens that fall into known and unknown categories alike
FewCatalogTokens ==
    {CatalogToken(<<"z", "e", "t", "a">>, <<"x">>, <<>>), CatalogToken(<<"a", "l", "p", "h", "a">>, <<"x">>, <<>>),
     CatalogToken(<<"b", "r", "a", "n", "d">>, <<"x">>, TypeShadow), CatalogToken(<<"b", "r", "a", "n", "d">>, <<"x">>, TypeColor),
     CatalogToken(<<"s", "p", "a", "c", "i", "n", "g">>, <<"x">>, TypeColor), CatalogToken(<<"c", "o", "m", "p", "o", "n", "e", "n", "t", "s">>, <<"x">>, <<>>),
     CatalogToken(<<"b", "r", "a", "n", "d">>, <<"x">>, TypeDimension), CatalogToken(<<"b", "e", "t", "a">>, <<"x">>, TypeFontFamily)}

CatalogLists ==
    [1..1 -> AllCatalogTokens] \cup UNION {[1..n -> FewCatalogTokens] : n \in 2..MaxCatalog}

InitCategories ==
    /\ catalog \in {[NoCatalog EXCEPT !.tokens = list] : list \in CatalogLists}
    /\ files = <<>> /\ fileIdx = 1
    /\ parserTokens = <<>> /\ categories = <<>> /\ errors = <<>>
    /\ result = NoResult /\ report = NoReport /\ tool = NoTool /\ earlier = NoEarlier
    /\ tokens = <<>> /\ tokenMap = <<>> /\ resolvedTokens = <<>> /\ resolutionStack = <<>>
    /\ frames = <<>> /\ ctl = Idle /\ top = "idle" /\ allIdx = 0
    /\ calls = 0 /\ outcome = NoOutcome /\ computed = <<>> /\ steps = 0

\* inferTokenCategory on each token of the list
ClassifyTokens ==
    /\ ~catalog.classified
    /\ catalog' = [catalog EXCEPT !.classified = TRUE,
                                  !.classes = [i \in 1..Len(catalog.tokens) |->
                                                  InferTokenCategory(catalog.tokens[i])]]
    /\ UNCHANGED <<files, fileIdx, parserTokens, categories, errors, result, report, tool, earlier, rvars>>

\* categorizeTokens on the list
CategorizeList ==
    /\ ~catalog.categorized
    /\ catalog' = [catalog EXCEPT !.categorized = TRUE,
                                  !.categories = CategorizeTokens(catalog.tokens)]
    /\ UNCHANGED <<files, fileIdx, parserTokens, categories, errors, result, report, tool, earlier, rvars>>

NextCategories == ClassifyTokens \/ CategorizeList

SpecCategories == InitCategories /\ [][NextCategories]_vars

-----------------------------------------------------------------------------
(* The order of the categories *)

\* where the name stands among the known categories, 0 when it is none of them
KnownRank(name) ==
    IF \E i \in 1..Len(KnownCategoryOrder) : KnownCategoryOrder[i] = name
    THEN CHOOSE i \in 1..Len(KnownCategoryOrder) : KnownCategoryOrder[i] = name
    ELSE 0

\* the place of a letter in the alphabet
LetterRank(c) == CHOOSE i \in 1..26 : LowerCase[i] = c

\* a comes before b in a dictionary
RECURSIVE AlphabeticallyBefore(_, _)
AlphabeticallyBefore(a, b) ==
    IF Len(b) = 0 THEN FALSE
    ELSE IF Len(a) = 0 THEN TRUE
    ELSE IF Head(a) = Head(b) THEN AlphabeticallyBefore(Tail(a), Tail(b))
    ELSE LetterRank(Head(a)) < LetterRank(Head(b))

(* C15: categorizeTokens returns only non-empty categories, the known categories
   first in the order colors, typography, spacing, borders, shadows, animations,
   components, then every other category in ascending alphabetical order of name *)
C15_KnownFirstThenAlphabetical ==
    catalog.categorized =>
        /\ \A i \in 1..Len(catalog.categories) :
            /\ Len(catalog.categories[i].tokens) > 0
            /\ catalog.categories[i].totalCount = Len(catalog.categories[i].tokens)
        /\ \A i, j \in 1..Len(catalog.categories) :
            i < j =>
                LET first == catalog.categories[i].name
                    second == catalog.categories[j].name
                IN IF KnownRank(second) > 0
                   THEN KnownRank(first) > 0 /\ KnownRank(first) < KnownRank(second)
                   ELSE KnownRank(first) > 0 \/ AlphabeticallyBefore(first, second)

\* a list with two known and two other categories, given out of order, has been
\* categorized
C15_Witness ==
    /\ catalog.categorized
    /\ Len(catalog.tokens) = 3
    /\ [i \in 1..3 |-> catalog.tokens[i].path[1]] = <<<<"z", "e", "t", "a">>, <<"b", "r", "a", "n", "d">>, <<"a", "l", "p", "h", "a">>>>
    /\ catalog.tokens[2].type = TypeShadow
    /\ [i \in 1..Len(catalog.categories) |-> catalog.categories[i].name] = <<<<"s", "h", "a", "d", "o", "w", "s">>, <<"a", "l", "p", "h", "a">>, <<"z", "e", "t", "a">>>>

-----------------------------------------------------------------------------
(* Classification of a token *)

\* the first path segment as inferTokenCategory reads it
PrimaryCategory(token) == ToLowerCase(token.path[1])

(* C16: a token whose first path segment is a known category name is classified into
   that category whatever its declared type; the type is consulted only when the
   first segment is no known category *)
C16_KnownSegmentWins ==
    catalog.classified =>
        \A i \in 1..Len(catalog.tokens) :
            KnownRank(PrimaryCategory(catalog.tokens[i])) > 0
                => catalog.classes[i] = PrimaryCategory(catalog.tokens[i])

\* a color token under Spacing has been classified as spacing
C16_Witness ==
    /\ catalog.classified
    /\ Len(catalog.tokens) = 1
    /\ catalog.tokens[1].path[1] = <<"S", "p", "a", "c", "i", "n", "g">>
    /\ catalog.tokens[1].type = TypeColor
    /\ catalog.classes[1] = <<"s", "p", "a", "c", "i", "n", "g">>

\* the category the declared type stands for, the first segment when it stands for none
CategoryOfType(token) ==
    CASE token.type = TypeColor -> <<"c", "o", "l", "o", "r", "s">>
      [] token.type \in {TypeFontFamily, TypeFontWeight, TypeTypography} -> <<"t", "y", "p", "o", "g", "r", "a", "p", "h", "y">>
      [] token.type = TypeBorder -> <<"b", "o", "r", "d", "e", "r", "s">>
      [] token.type = TypeShadow -> <<"s", "h", "a", "d", "o", "w", "s">>
      [] token.type \in {TypeDuration, TypeCubicBezier, TypeTransition} -> <<"a", "n", "i", "m", "a", "t", "i", "o", "n", "s">>
      [] OTHER -> token.path[1]

(* C17: a token whose first path segment is no known category is classified by its
   declared type: color as colors; fontFamily, fontWeight, typography as typography;
   border as borders; shadow as shadows; duration, cubicBezier, transition as
   animations; with no type or any other type (dimension, which has its own rule,
   left aside) it falls back to its first path segment *)
C17_TypeDecides ==
    catalog.classified =>
        \A i \in 1..Len(catalog.tokens) :
            (KnownRank(PrimaryCategory(catalog.tokens[i])) = 0
                /\ catalog.tokens[i].type # TypeDimension)
            => catalog.classes[i] = CategoryOfType(catalog.tokens[i])

-----------------------------------------------------------------------------
(* Flattening a document *)

\* the paths of the token nodes reached from the node through keys without the
\* metadata prefix and through objects that are no tokens
RECURSIVE TokenNodePaths(_, _)
TokenNodePaths(node, path) ==
    UNION { IF IsMetaKey(node.kids[i].k) THEN {}
            ELSE IF IsToken(node.kids[i].v) THEN {Append(path, node.kids[i].k)}
            ELSE IF IsObject(node.kids[i].v)
            THEN TokenNodePaths(node.kids[i].v, Append(path, node.kids[i].k))
            ELSE {} : i \in 1..Len(node.kids) }

\* the path's segments with a dash between them
RECURSIVE DashJoined(_)
DashJoined(path) ==
    IF Len(path) = 0 THEN <<>>
    ELSE IF Len(path) = 1 THEN path[1]
    ELSE path[1] \o <<"-">> \o DashJoined(Tail(path))

\* the first document of the batch has been flattened, and nothing else
FirstFlattened ==
    /\ fileIdx = 2
    /\ files[1].kind = "json"
    /\ Len(errors) = 0

(* C18: flattening a validated document gives exactly one flattened token for each
   token node reached from the root through non-metadata keys and groups; the token's
   path is the key sequence from the root, its name the path joined with dashes, and
   no key with the metadata prefix is a path segment *)
C18_OneTokenPerNode ==
    FirstFlattened =>
        /\ {parserTokens[k].val.path : k \in 1..Len(parserTokens)}
              = TokenNodePaths(files[1].data, <<>>)
        /\ Len(parserTokens) = Cardinality(TokenNodePaths(files[1].data, <<>>))
        /\ \A k \in 1..Len(parserTokens) :
              /\ parserTokens[k].val.name = DashJoined(parserTokens[k].val.path)
              /\ \A n \in 1..Len(parserTokens[k].val.path) :
                    ~IsMetaKey(parserTokens[k].val.path[n])

-----------------------------------------------------------------------------
(* The records resolveAllTokens returns *)

\* resolveAllTokens has returned Array.from(this.resolvedTokens.values())
AllReturned == outcome.call = "resolveAllTokens" /\ outcome.how = "returned"

\* the returned records that carry the name
RecordsNamed(name) == {i \in 1..Len(resolvedTokens) : resolvedTokens[i].val.name = name}

(* C19: resolveAllTokens returns exactly one resolved record for each distinct token
   name of the resolver's input and no record of any other name, whatever the tokens
   are and whatever resolveToken calls, by name or by dot-joined path, came before *)
C19_OneRecordPerName ==
    AllReturned =>
        /\ \A n \in 1..Len(tokens) : Cardinality(RecordsNamed(tokens[n].name)) = 1
        /\ \A i \in 1..Len(resolvedTokens) :
              \E n \in 1..Len(tokens) : resolvedTokens[i].val.name = tokens[n].name

-----------------------------------------------------------------------------
(* The tools getCategoryTokens and getTokenReference: each request discovers the
   token files, picks a category of the parsed result and hands tokens to
   resolveTokenReferences, which runs a new resolver's resolveAllTokens *)

ToolToken(path, value) ==
    [name |-> Join(path, "-"), path |-> path, value |-> value, type |-> TypeColor,
     description |-> Undefined, extensions |-> Undefined]

ColorsBase == <<<<"c", "o", "l", "o", "r", "s">>, <<"b", "a", "s", "e">>>>
ColorsPrimary == <<<<"c", "o", "l", "o", "r", "s">>, <<"p", "r", "i", "m", "a", "r", "y">>>>
ComponentsButton == <<<<"c", "o", "m", "p", "o", "n", "e", "n", "t", "s">>, <<"b", "u", "t", "t", "o", "n">>>>

\* allTokens of the parsed result: a literal, and two tokens that may be aliases of a
\* token of their own category, of the other category, or of no token
ToolCatalogs ==
    { <<ToolToken(ColorsBase, Literal), ToolToken(ColorsPrimary, v), ToolToken(ComponentsButton, w)>> :
        v \in {Literal, AliasV(<<"c", "o", "l", "o", "r", "s", ".", "b", "a", "s", "e">>), AliasV(<<"c", "o", "m", "p", "o", "n", "e", "n", "t", "s", ".", "b", "u", "t", "t", "o", "n">>)},
        w \in {Literal, AliasV(<<"c", "o", "l", "o", "r", "s", ".", "b", "a", "s", "e">>), AliasV(<<"c", "o", "l", "o", "r", "s", ".", "p", "r", "i", "m", "a", "r", "y">>), AliasV(RefMissing)} }

ToolRequests ==
    { [tool |-> "getCategoryTokens", category |-> c, name |-> <<>>, includeResolved |-> b] :
        c \in {<<"c", "o", "l", "o", "r", "s">>, <<"c", "o", "m", "p", "o", "n", "e", "n", "t", "s">>, <<"z", "e", "t", "a">>}, b \in BOOLEAN }
    \cup
    { [tool |-> "getTokenReference", category |-> c, name |-> n, includeResolved |-> FALSE] :
        c \in {<<"c", "o", "l", "o", "r", "s">>, <<"c", "o", "m", "p", "o", "n", "e", "n", "t", "s">>, <<"z", "e", "t", "a">>},
        n \in {<<"c", "o", "l", "o", "r", "s", "-", "b", "a", "s", "e">>, <<"c", "o", "l", "o", "r", "s", "-", "p", "r", "i", "m", "a", "r", "y">>, <<"c", "o", "m", "p", "o", "n", "e", "n", "t", "s", "-", "b", "u", "t", "t", "o", "n">>, <<"z", "e", "t", "a">>} }

InitTools ==
    /\ tool \in { [phase |-> "request", request |-> r, allTokens |-> all,
                   categories |-> CategorizeTokens(all), response |-> [ok |-> FALSE]] :
                  r \in ToolRequests, all \in ToolCatalogs }
    /\ tokens = <<>> /\ tokenMap = <<>> /\ resolvedTokens = <<>> /\ resolutionStack = <<>>
    /\ frames = <<>> /\ ctl = Idle /\ top = "idle" /\ allIdx = 0
    /\ calls = 0 /\ outcome = NoOutcome /\ computed = <<>> /\ steps = 0
    /\ files = <<>> /\ fileIdx = 1
    /\ parserTokens = <<>> /\ categories = <<>> /\ errors = <<>>
    /\ result = NoResult /\ report = NoReport /\ catalog = NoCatalog /\ earlier = NoEarlier

\* result.parsedResult.categories.find(cat => cat.name === category)
CategoryFound ==
    \E i \in 1..Len(tool.categories) : tool.categories[i].name = tool.request.category

CategoryData ==
    tool.categories[CHOOSE i \in 1..Len(tool.categories) :
                        tool.categories[i].name = tool.request.category]

\* categoryData.tokens.find(t => t.name === name)
TokenFound ==
    \E i \in 1..Len(CategoryData.tokens) : CategoryData.tokens[i].name = tool.request.name

FoundToken ==
    CategoryData.tokens[CHOOSE i \in 1..Len(CategoryData.tokens) :
                            /\ CategoryData.tokens[i].name = tool.request.name
                            /\ \A j \in 1..(i - 1) :
                                  CategoryData.tokens[j].name # tool.request.name]

\* resolveTokenReferences(toks): a new resolver on toks starts resolveAllTokens
StartResolver(toks) ==
    /\ tokens' = toks
    /\ tokenMap' = TokenMapOf(toks)
    /\ resolvedTokens' = <<>>
    /\ resolutionStack' = <<>>
    /\ frames' = <<>>
    /\ ctl' = LoopAll
    /\ top' = "resolveAllTokens"
    /\ allIdx' = 1
    /\ calls' = 1
    /\ outcome' = [call |-> "resolveAllTokens", key |-> <<>>, how |-> "running"]
    /\ computed' = [i \in 1..Len(toks) |-> 0]
    /\ steps' = 0

\* the tool throws an McpError
ToolFailure(code) == [ok |-> FALSE, code |-> code, tokens |-> <<>>]

\* resolvedByName.get(name), of new Map(resolved.map(rt => [rt.name, rt]))
ResolvedByName(name) ==
    resolvedTokens[CHOOSE i \in 1..Len(resolvedTokens) :
                      /\ resolvedTokens[i].val.name = name
                      /\ \A j \in (i + 1)..Len(resolvedTokens) :
                            resolvedTokens[j].val.name # name].val

\* resolved.resolvedValue !== token.value ? resolved.resolvedValue : undefined
ResolvedValueShown(token, resolved) ==
    IF resolved.resolvedValue # token.value THEN resolved.resolvedValue ELSE Undefined

\* a token summary of getCategoryTokens
TokenSummary(token, resolvedValue) ==
    [name |-> token.name, path |-> token.path, value |-> token.value,
     resolvedValue |-> resolvedValue, type |-> token.type]

\* the TokenReference of getTokenReference
TokenReference(token, resolvedToken) ==
    [name |-> token.name, path |-> token.path, category |-> tool.request.category,
     value |-> token.value,
     resolvedValue |-> ResolvedValueShown(token, resolvedToken),
     type |-> token.type,
     isResolved |-> resolvedToken.isResolved,
     referencePath |-> resolvedToken.referencePath,
     resolutionError |-> resolvedToken.resolutionError]

\* either tool: the category is not in the parsed result
ToolCategoryNotFound ==
    /\ tool.phase = "request"
    /\ ~CategoryFound
    /\ tool' = [tool EXCEPT !.phase = "done", !.response = ToolFailure("InvalidRequest")]
    /\ UNCHANGED <<files, fileIdx, parserTokens, categories, errors, result, report, catalog, earlier, rvars>>

\* getCategoryTokens without includeResolved
GetCategoryTokensPlain ==
    /\ tool.phase = "request"
    /\ tool.request.tool = "getCategoryTokens"
    /\ CategoryFound
    /\ ~tool.request.includeResolved
    /\ tool' = [tool EXCEPT !.phase = "done",
                  !.response = [ok |-> TRUE, code |-> "",
                                tokens |-> [i \in 1..Len(CategoryData.tokens) |->
                                    TokenSummary(CategoryData.tokens[i], Undefined)]]]
    /\ UNCHANGED <<files, fileIdx, parserTokens, categories, errors, result, report, catalog, earlier, rvars>>

\* getCategoryTokens with includeResolved: resolveTokenReferences(categoryData.tokens)
GetCategoryTokensResolve ==
    /\ tool.phase = "request"
    /\ tool.request.tool = "getCategoryTokens"
    /\ CategoryFound
    /\ tool.request.includeResolved
    /\ StartResolver(CategoryData.tokens)
    /\ tool' = [tool EXCEPT !.phase = "resolving"]
    /\ UNCHANGED <<files, fileIdx, parserTokens, categories, errors, result, report, catalog, earlier>>

\* getCategoryTokens: the summaries, once resolveTokenReferences has returned
GetCategoryTokensReturn ==
    /\ tool.phase = "resolving"
    /\ tool.request.tool = "getCategoryTokens"
    /\ top = "idle" /\ outcome.how = "returned"
    /\ tool' = [tool EXCEPT !.phase = "done",
                  !.response = [ok |-> TRUE, code |-> "",
                                tokens |-> [i \in 1..Len(tokens) |->
                                    TokenSummary(tokens[i],
                                        ResolvedValueShown(tokens[i],
                                            ResolvedByName(tokens[i].name)))]]]
    /\ UNCHANGED <<files, fileIdx, parserTokens, categories, errors, result, report, catalog, earlier, rvars>>

\* getTokenReference: the token is not in the category
GetTokenReferenceNotFound ==
    /\ tool.phase = "request"
    /\ tool.request.tool = "getTokenReference"
    /\ CategoryFound
    /\ ~TokenFound
    /\ tool' = [tool EXCEPT !.phase = "done", !.response = ToolFailure("InvalidRequest")]
    /\ UNCHANGED <<files, fileIdx, parserTokens, categories, errors, result, report, catalog, earlier, rvars>>

\* getTokenReference: resolveTokenReferences([token])
GetTokenReferenceResolve ==
    /\ tool.phase = "request"
    /\ tool.request.tool = "getTokenReference"
    /\ CategoryFound
    /\ TokenFound
    /\ StartResolver(<<FoundToken>>)
    /\ tool' = [tool EXCEPT !.phase = "resolving"]
    /\ UNCHANGED <<files, fileIdx, parserTokens, categories, errors, result, report, catalog, earlier>>

\* getTokenReference: the reference built from resolvedTokens[0]
GetTokenReferenceReturn ==
    /\ tool.phase = "resolving"
    /\ tool.request.tool = "getTokenReference"
    /\ top = "idle" /\ outcome.how = "returned"
    /\ tool' = [tool EXCEPT !.phase = "done",
                  !.response = [ok |-> TRUE, code |-> "",
                                tokens |-> <<TokenReference(tokens[1], resolvedTokens[1].val)>>]]
    /\ UNCHANGED <<files, fileIdx, parserTokens, categories, errors, result, report, catalog, earlier, rvars>>

\* the steps of the resolver that resolveAllTokens takes on these token sets
NextTools ==
    \/ ToolCategoryNotFound
    \/ GetCategoryTokensPlain \/ GetCategoryTokensResolve \/ GetCategoryTokensReturn
    \/ GetTokenReferenceNotFound \/ GetTokenReferenceResolve \/ GetTokenReferenceReturn
    \/ AllLoop \/ ResolveTokenMemoized \/ ResolveTokenEnter
    \/ ResolveValueReference \/ ResolveValuePrimitive
    \/ ReferenceReturn \/ ResolveTokenReturn \/ TopReturn

SpecTools == InitTools /\ [][NextTools]_vars

\* the concrete value an alias chain ends in within the whole catalog; undefined when
\* the chain breaks or does not end within fuel steps
RECURSIVE ConcreteOf(_, _)
ConcreteOf(value, fuel) ==
    IF ~IsAliasValue(value) THEN value
    ELSE IF fuel = 0 THEN Undefined
    ELSE LET referenced == FindReferencedTokenIn(TokenMapOf(tool.allTokens),
                                                 ParseTokenReference(value.s))
         IN IF referenced.found THEN ConcreteOf(referenced.tok.value, fuel - 1)
            ELSE Undefined

\* a tool has answered with resolved tokens
AnsweredResolved ==
    /\ tool.phase = "done"
    /\ tool.response.ok
    /\ tool.request.tool = "getTokenReference" \/ tool.request.includeResolved

(* C20: when getCategoryTokens with includeResolved, or getTokenReference, resolves a
   token, it resolves against the full flat token set of the request's documents: an
   alias whose target exists anywhere in the catalog, in another category as well,
   comes back with the target's concrete value as resolvedValue *)
C20_ResolvesAgainstCatalog ==
    AnsweredResolved =>
        \A i \in 1..Len(tool.response.tokens) :
            (/\ IsAliasValue(tool.response.tokens[i].value)
             /\ ConcreteOf(tool.response.tokens[i].value, Len(tool.allTokens)) # Undefined)
            => tool.response.tokens[i].resolvedValue
                   = ConcreteOf(tool.response.tokens[i].value, Len(tool.allTokens))

-----------------------------------------------------------------------------
(* Tokens without aliases *)

\* the value is an alias string, or holds one at some depth
RECURSIVE HasAlias(_)
HasAlias(v) ==
    IsAliasValue(v) \/ \E i \in 1..Len(v.kids) : HasAlias(v.kids[i].v)

\* the record says: resolved, with the token's own value, nothing else to tell
RoundTrips(rec) ==
    /\ rec.isResolved
    /\ rec.resolutionError = <<>>
    /\ rec.referencePath = <<>>
    /\ ~rec.hasCircularReference
    /\ rec.resolvedValue = rec.originalValue
    /\ rec.originalValue = rec.value
    /\ rec.value = TokenNamed(rec.name).value

(* C21: for every token whose value holds no alias (a primitive, or a composite with
   no alias string at any depth) resolution yields isResolved = true, no
   resolutionError, no referencePath, and resolvedValue = originalValue = the
   flattened token's value; this holds of every memoized record and of every record
   a call hands back *)
C21_NoAliasRoundTrips ==
    /\ \A i \in 1..Len(resolvedTokens) :
          ~HasAlias(resolvedTokens[i].val.value) => RoundTrips(resolvedTokens[i].val)
    /\ (ctl.op = "return" /\ ctl.kind = "rec" /\ ~HasAlias(ctl.rec.value))
          => RoundTrips(ctl.rec)

\* resolveAllTokens has returned with the record of a composite that holds no alias
C21_Witness ==
    /\ AllReturned
    /\ \E i \in 1..Len(resolvedTokens) :
          /\ IsComposite(resolvedTokens[i].val.value)
          /\ ~HasAlias(resolvedTokens[i].val.value)
          /\ RoundTrips(resolvedTokens[i].val)

-----------------------------------------------------------------------------
(* The resolution stack *)

(* C22: the resolution stack is empty whenever no resolveToken call is in progress:
   after a top-level resolveToken or resolveAllTokens call has ended, by returning a
   record or null or by an exception, no name is left on it; while a call runs it
   holds exactly the names of the resolveToken calls in progress *)
C22_StackNeverLeaks ==
    /\ top = "idle" => resolutionStack = <<>>
    /\ Len(frames) = 0 => resolutionStack = <<>>
    /\ top # "idle" => resolutionStack = NamesInProgress

\* a call that went at least two resolveToken calls deep has ended by an exception
C22_Witness ==
    /\ top = "idle"
    /\ outcome.how = "threw"
    /\ resolutionStack = <<>>
    /\ \E i \in 1..Len(resolvedTokens) : resolvedTokens[i].val.hasCircularReference

-----------------------------------------------------------------------------
(* Memoization *)

\* resolveTokenValue has run at most once for each token
C23_AtMostOnce == \A i \in 1..Len(computed) : computed[i] <= 1

\* a step leaves the memoized record of every key that is not being resolved as it is
C23_MemoKept ==
    \A k \in 1..Len(resolvedTokens) :
        ~OnStack(resolutionStack, resolvedTokens[k].key)
            => /\ Len(resolvedTokens') >= k
               /\ resolvedTokens'[k] = resolvedTokens[k]

(* C23: within one resolver, across any sequence of resolveToken and resolveAllTokens
   calls, resolveTokenValue runs at most once for each token name, and every later
   request for the name finds the memoized record unchanged *)
C23_ComputedOnce == []C23_AtMostOnce /\ [][C23_MemoKept]_vars

-----------------------------------------------------------------------------
(* Records marked circular *)

\* a step keeps every record that is marked circular marked, and unresolved
C24_StaysCircular ==
    \A k \in 1..Len(resolvedTokens) :
        resolvedTokens[k].val.hasCircularReference
            => /\ Len(resolvedTokens') >= k
               /\ resolvedTokens'[k].key = resolvedTokens[k].key
               /\ resolvedTokens'[k].val.hasCircularReference
               /\ ~resolvedTokens'[k].val.isResolved

\* a record marked circular is unresolved
C24_CircularUnresolved ==
    \A k \in 1..Len(resolvedTokens) :
        resolvedTokens[k].val.hasCircularReference => ~resolvedTokens[k].val.isResolved

(* C24: once a memoized record has hasCircularReference = true it keeps
   hasCircularReference = true and isResolved = false for the rest of the resolver's
   life: neither the end of the resolution in progress for that name nor a later
   resolveToken or resolveAllTokens call puts a non-circular record in its place *)
C24_CircularKept == []C24_CircularUnresolved /\ [][C24_StaysCircular]_vars

\* a second top-level call has returned on a resolver whose first call left a
\* record marked circular, and the record is still marked
C24_Witness ==
    /\ top = "idle" /\ calls = 2 /\ outcome.how = "returned"
    /\ \E k \in 1..Len(resolvedTokens) :
          /\ resolvedTokens[k].val.hasCircularReference
          /\ ~resolvedTokens[k].val.isResolved
          /\ outcome.call = "resolveToken" => outcome.key = resolvedTokens[k].key

-----------------------------------------------------------------------------
(* Alias lookup: token sets in which the lookup strategies of findReferencedToken
   find different tokens, or find a token only by its last segment *)

\* paths of one and two segments; a segment may itself hold a dash or a dot
LookupPaths ==
    { << <<"g">>, <<"b">> >>, << <<"b">> >>, << <<"g", "-", "b">> >>, << <<"g", ".", "b">> >>,
      << <<"h">>, <<"c">> >> }

\* aliases by name, by path, and by names no token has
LookupRefs == { <<"g", "-", "b">>, <<"g", ".", "b">>, <<"z", ".", "b">>, <<"z", "-", "c">>, RefMissing }

LookupTokens ==
    { ParsedToken(path, value) :
        path \in LookupPaths, value \in {Literal} \cup {AliasV(r) : r \in LookupRefs} }

\* one or two tokens with different names and different dot-joined paths
LookupTokenSets ==
    { <<t>> : t \in LookupTokens }
    \cup { pair \in LookupTokens \X LookupTokens :
                /\ pair[1].name # pair[2].name
                /\ Join(pair[1].path, ".") # Join(pair[2].path, ".") }

InitLookup ==
    /\ tokens \in LookupTokenSets
    /\ tokenMap = TokenMapOf(tokens)
    /\ resolvedTokens = <<>>
    /\ resolutionStack = <<>>
    /\ frames = <<>>
    /\ ctl = Idle
    /\ top = "idle"
    /\ allIdx = 0
    /\ calls = 0
    /\ outcome = NoOutcome
    /\ computed = [i \in 1..Len(tokens) |-> 0]
    /\ steps = 0
    /\ files = <<>> /\ fileIdx = 1
    /\ parserTokens = <<>> /\ categories = <<>> /\ errors = <<>>
    /\ result = NoResult /\ report = NoReport /\ catalog = NoCatalog /\ tool = NoTool /\ earlier = NoEarlier

\* the steps the resolver takes on token sets without composite values
NextLookup ==
    \/ TopResolveToken \/ TopResolveAll \/ AllLoop
    \/ ResolveTokenMemoized \/ ResolveTokenUnknown \/ ResolveTokenCycle \/ ResolveTokenEnter
    \/ ResolveValueReference \/ ResolveValuePrimitive
    \/ ReferenceReturn \/ ResolveTokenReturn \/ TopReturn

SpecLookup == InitLookup /\ [][NextLookup]_vars

-----------------------------------------------------------------------------
(* The order of the lookup strategies *)

\* what a Map.get(key) strategy finds
HitByKey(key) ==
    IF MapHas(tokenMap, key) THEN [found |-> TRUE, tok |-> MapGet(tokenMap, key)]
    ELSE [found |-> FALSE, tok |-> NoToken]

\* what a scan of the map finds: the first entry, in insertion order, that passes
HitByScan(passing) ==
    IF passing = {} THEN [found |-> FALSE, tok |-> NoToken]
    ELSE [found |-> TRUE,
          tok |-> tokenMap[CHOOSE i \in passing : \A j \in passing : i <= j].val]

\* what each strategy finds on its own, in the order they are tried: the exact key,
\* dots as dashes, dashes as dots, an equal dot-joined path, the trailing segment
StrategyHits(referenceName) ==
    << HitByKey(referenceName),
       HitByKey(ReplaceAll(referenceName, ".", "-")),
       HitByKey(ReplaceAll(referenceName, "-", ".")),
       HitByScan({i \in 1..Len(tokenMap) :
                    Join(tokenMap[i].val.path, ".") = referenceName}),
       HitByScan({i \in 1..Len(tokenMap) :
                    /\ Len(LastSegment(referenceName)) > 0
                    /\ \/ tokenMap[i].val.path[Len(tokenMap[i].val.path)]
                             = LastSegment(referenceName)
                       \/ EndsWith(tokenMap[i].val.name,
                                   <<"-">> \o LastSegment(referenceName))}) >>

\* the hit of the first strategy that has one
FirstHit(hits) ==
    IF \E n \in 1..Len(hits) : hits[n].found
    THEN hits[CHOOSE n \in 1..Len(hits) :
                 hits[n].found /\ \A k \in 1..(n - 1) : ~hits[k].found]
    ELSE [found |-> FALSE, tok |-> NoToken]

\* resolveTokenValue has looked its alias up and calls resolveToken on what it found
LookedUp ==
    /\ ctl.op = "resolveToken"
    /\ Len(frames) > 0
    /\ TopFrame.k = "reference"

(* C25: alias lookup tries its strategies in a fixed order and returns the token of
   the first that matches: the exact key (name or dot-joined path), then dots as
   dashes, then dashes as dots, then a scan for an equal dot-joined path, and only
   then the trailing segment; a token an earlier strategy finds is never displaced
   by another that only a later strategy would find, and the alias is reported as
   not found only when no strategy matches *)
C25_FirstStrategyWins ==
    /\ LookedUp =>
          /\ FirstHit(StrategyHits(TopFrame.ref)).found
          /\ ctl.key = FirstHit(StrategyHits(TopFrame.ref)).tok.name
    /\ \A i \in 1..Len(tokens) :
          IsAliasValue(tokens[i].value) =>
              FindReferencedToken(ParseTokenReference(tokens[i].value.s))
                  = FirstHit(StrategyHits(ParseTokenReference(tokens[i].value.s)))

\* the lookup returned the token of the exact key where the trailing segment alone
\* would have given another token
C25_Witness ==
    /\ LookedUp
    /\ StrategyHits(TopFrame.ref)[1].found
    /\ StrategyHits(TopFrame.ref)[5].found
    /\ StrategyHits(TopFrame.ref)[5].tok.name # StrategyHits(TopFrame.ref)[1].tok.name
    /\ ctl.key = StrategyHits(TopFrame.ref)[1].tok.name

-----------------------------------------------------------------------------
(* An alias that names no token *)

\* no token has the alias as its name or dot-joined path, as written or with dots
\* and dashes exchanged
NamesNoToken(referenceName) ==
    \A n \in 1..4 : ~StrategyHits(referenceName)[n].found

\* the trailing segment of the alias matches no token other than the one named
OnlyItself(name, referenceName) ==
    \/ ~StrategyHits(referenceName)[5].found
    \/ StrategyHits(referenceName)[5].tok.name = name

(* C30: alias lookup never returns the referencing token itself unless the alias
   is that token's own name or dot-joined path; a token whose alias names no token
   (one that only shares the token's own last path segment, say) is recorded with
   'Referenced token not found' and is never marked hasCircularReference *)
C30_NeverItself ==
    /\ (LookedUp /\ ctl.key = TopFrame.tok.name) =>
          TopFrame.ref \in {TopFrame.tok.name, Join(TopFrame.tok.path, ".")}
    /\ \A k \in 1..Len(resolvedTokens) :
          LET rec == resolvedTokens[k].val
              referenceName == ParseTokenReference(rec.value.s)
          IN (/\ IsAliasValue(rec.value)
              /\ referenceName # <<>>
              /\ NamesNoToken(referenceName)
              /\ OnlyItself(rec.name, referenceName)) =>
                  /\ ~rec.hasCircularReference
                  /\ rec.resolutionError = NotFoundErr(referenceName)

-----------------------------------------------------------------------------
(* The resolver's input *)

\* a step leaves the flattened tokens, and the map that indexes them, as they were
C26_InputStep ==
    /\ tokens' = tokens
    /\ tokenMap' = tokenMap

\* every record carries the name, path and value of the flattened token it was built
\* from, next to the fields the flattened token does not have: it is another object
C26_RecordsApart ==
    \A k \in 1..Len(resolvedTokens) :
        LET rec == resolvedTokens[k].val
        IN /\ MapHas(tokenMap, rec.name)
           /\ rec.path = MapGet(tokenMap, rec.name).path
           /\ rec.value = MapGet(tokenMap, rec.name).value
           /\ rec.originalValue = MapGet(tokenMap, rec.name).value
           /\ \A i \in 1..Len(tokens) :
                 /\ DOMAIN tokens[i] = {"name", "path", "value"}
                 /\ DOMAIN rec # DOMAIN tokens[i]

(* C26: resolution leaves its input unchanged: through any sequence of resolveToken
   and resolveAllTokens calls every flattened token given to the resolver keeps its
   name, path and value, nested composite fields included, and every resolved record
   is an object of its own that repeats the flattened token's fields *)
C26_InputKept == []C26_RecordsApart /\ [][C26_InputStep]_vars

\* two calls have returned, a record holds a resolved value that differs from the
\* value of its token, a composite one among them, and the token still has its value
C26_Witness ==
    /\ top = "idle" /\ calls = 2 /\ outcome.how = "returned"
    /\ \E k \in 1..Len(resolvedTokens) :
          /\ resolvedTokens[k].val.isResolved
          /\ resolvedTokens[k].val.value.t \in {"obj", "arr"}
          /\ resolvedTokens[k].val.resolvedValue # resolvedTokens[k].val.value
          /\ MapGet(tokenMap, resolvedTokens[k].val.name).value = resolvedTokens[k].val.value
    /\ \E k \in 1..Len(resolvedTokens) :
          /\ resolvedTokens[k].val.isResolved
          /\ IsAliasValue(resolvedTokens[k].val.value)

-----------------------------------------------------------------------------
(* Two resolvers on the same tokens, supplied in opposite orders *)

Reversed(q) == [i \in 1..Len(q) |-> q[Len(q) + 1 - i]]

\* resolveAllTokens on the first resolver is over; what it gave is kept, and
\* new TokenReferenceResolver(tokens) is called with the tokens in the opposite order
SecondResolver ==
    /\ top = "idle" /\ calls = 1
    /\ earlier = NoEarlier
    /\ outcome.call = "resolveAllTokens"
    /\ Len(tokens) > 1
    /\ earlier' = [how |-> outcome.how, records |-> resolvedTokens]
    /\ tokens' = Reversed(tokens)
    /\ tokenMap' = TokenMapOf(Reversed(tokens))
    /\ resolvedTokens' = <<>>
    /\ resolutionStack' = <<>>
    /\ frames' = <<>>
    /\ ctl' = Idle
    /\ allIdx' = 0
    /\ outcome' = NoOutcome
    /\ computed' = [i \in 1..Len(tokens) |-> 0]
    /\ steps' = 0
    /\ UNCHANGED <<top, calls, files, fileIdx, parserTokens, categories, errors, result,
                   report, catalog, tool>>

InitOrders == InitResolver

\* only resolveAllTokens is called, so resolveToken is never given an unknown key
NextOrders ==
    \/ TopResolveAll \/ SecondResolver \/ AllLoop
    \/ ResolveTokenMemoized \/ ResolveTokenCycle \/ ResolveTokenEnter
    \/ ResolveValueReference \/ ResolveValueComposite \/ ResolveValuePrimitive
    \/ CompositeEnter \/ CompositeLoop \/ CompositeItemReturn
    \/ ReferenceReturn \/ CompositeReturn \/ ResolveTokenReturn \/ TopReturn
    \/ Unwind \/ TopThrow

SpecOrders == InitOrders /\ [][NextOrders]_vars

\* resolveAllTokens is over on both resolvers
BothOver ==
    /\ earlier # NoEarlier
    /\ top = "idle" /\ calls = 2
    /\ outcome.call = "resolveAllTokens"

\* the two records of a name agree on what a caller reads from them
SameReading(one, other) ==
    /\ one.isResolved = other.isResolved
    /\ one.hasCircularReference = other.hasCircularReference
    /\ one.resolvedValue = other.resolvedValue

(* C27: the outcome of resolveAllTokens does not depend on the order the tokens are
   supplied in: on two resolvers built from the same tokens in different orders
   either both calls return or both raise, and when they return every token name has
   the same isResolved, hasCircularReference and resolvedValue in both *)
C27_OrderIndependent ==
    BothOver =>
        /\ earlier.how = outcome.how
        /\ outcome.how = "returned" =>
              \A i \in 1..Len(tokens) :
                  /\ MapHas(earlier.records, tokens[i].name)
                  /\ MapHas(resolvedTokens, tokens[i].name)
                  /\ SameReading(MapGet(earlier.records, tokens[i].name),
                                 MapGet(resolvedTokens, tokens[i].name))

-----------------------------------------------------------------------------
(* What a resolved record says about itself *)

\* getUnresolvedTokens(resolvedTokens)
GetUnresolvedTokens(records) ==
    SelectSeq(records, LAMBDA rec : ~rec.isResolved)

\* getCircularReferences(resolvedTokens)
GetCircularReferences(records) ==
    SelectSeq(records, LAMBDA rec :
        rec.hasCircularReference \/ IncludesCircular(rec.resolutionError))

\* a record is consistent: circular means unresolved, unresolved means an error is
\* given, resolved means none is
Consistent(rec) ==
    /\ rec.hasCircularReference => ~rec.isResolved
    /\ ~rec.isResolved => rec.resolutionError # <<>>
    /\ rec.isResolved => rec.resolutionError = <<>>

\* Array.from(this.resolvedTokens.values())
MemoRecords == [k \in 1..Len(resolvedTokens) |-> resolvedTokens[k].val]

(* C28: every resolved record the resolver produces is consistent:
   hasCircularReference implies not isResolved, not isResolved implies a non-empty
   resolutionError, and isResolved implies no resolutionError; so every record that
   getCircularReferences returns is returned by getUnresolvedTokens too *)
C28_RecordsConsistent ==
    /\ \A k \in 1..Len(resolvedTokens) : Consistent(resolvedTokens[k].val)
    /\ (ctl.op = "return" /\ ctl.kind = "rec") => Consistent(ctl.rec)
    /\ \A i \in 1..Len(GetCircularReferences(MemoRecords)) :
          \E j \in 1..Len(GetUnresolvedTokens(MemoRecords)) :
              GetUnresolvedTokens(MemoRecords)[j] = GetCircularReferences(MemoRecords)[i]

\* resolveAllTokens has returned records of each kind: a circular one, one that is
\* unresolved without being circular, and a resolved one
C28_Witness ==
    /\ top = "idle" /\ AllReturned
    /\ Len(GetCircularReferences(MemoRecords)) > 0
    /\ Len(GetUnresolvedTokens(MemoRecords)) > Len(GetCircularReferences(MemoRecords))
    /\ Len(GetUnresolvedTokens(MemoRecords)) < Len(MemoRecords)

-----------------------------------------------------------------------------
(* The parser's categories against its token map *)

\* getTokensByCategory over every category: all the tokens the categories list
RECURSIVE ListedFrom(_)
ListedFrom(k) ==
    IF k > Len(categories) THEN <<>>
    ELSE categories[k].val \o ListedFrom(k + 1)

Listed == ListedFrom(1)

\* the sum of totalCount over getResults().categories
TotalCounts == Len(Listed)

(* C29: after any sequence of parseTokenFile calls on one parser the categories
   agree with the token map: every token a category lists is the token stored under
   its name, no name is listed twice, and the totalCount of the categories add up to
   the number of tokens in allTokens *)
C29_CategoriesAgree ==
    /\ \A i \in 1..Len(Listed) :
          /\ MapHas(parserTokens, Listed[i].name)
          /\ MapGet(parserTokens, Listed[i].name) = Listed[i]
    /\ \A i \in 1..Len(Listed) : \A j \in 1..Len(Listed) :
          Listed[i].name = Listed[j].name => i = j
    /\ TotalCounts = Len(parserTokens)

====
